---- MODULE Spec2Model ----
(***************************************************************************)
(* LazyTea / NoobUI IPC transport: the broadcast server                    *)
(* (nonebot_plugin_noobui/ipc/server.py), the frame reassembly of the      *)
(* three receivers, the threaded client                                    *)
(* (nonebot_plugin_lazytea/ui/pages/utils/client.py) and the task client   *)
(* (nonebot_plugin_noobui/ui/pages/utils/client.py).                       *)
(*                                                                         *)
(* The processes are independent programs; the variable "part" says which  *)
(* of them a behaviour follows, so that the state space of Spec is the sum *)
(* (not the product) of the parts.                                         *)
(***************************************************************************)
EXTENDS Integers, Sequences, FiniteSets, TLC

\* ---------------------------------------------------------------- bounds
MaxConns == 2        \* websocket connections that ever reach Server.start
MaxEvents == 3       \* events taken from server_send_queue by send_data

MaxQueued == 2       \* connection_state signals waiting for the owner thread
MaxPut == 3          \* messages sort_data puts into the type queues
MaxNotes == 7         \* connection states passed to _handle_connection_change
MaxSends == 2        \* send_raw_message calls in the model of client.lock
MaxFrames == 2       \* frames the peer puts on one connection
MaxFrameLen == 2     \* characters of one encoded frame

MaxReqs == 2         \* send_request calls of one client
MaxAttempts == 2     \* connect() calls of one client
MaxFake == 1         \* fake_message calls that forge a response
MaxTaskAttempts == 6 \* websockets.connect calls of the task client's manager
MaxDispatch == 2     \* frames one connection sends to the server's dispatcher
MaxSubs == 2         \* signals that subscribe to the threaded client's MessageHandler
MaxSubscribe == 2    \* subscribe calls
MaxSorted == 2       \* messages handed to sort_data
MaxRuns == 2         \* run() calls of the threaded client that start workers
MaxTaskEvents == 1   \* broadcasts the server sends to the task client

Conns == 1..MaxConns
Reqs == 1..MaxReqs
Events == 1..MaxEvents

VARIABLES
    part,                \* which program the behaviour follows
    \* ---- Server (ipc/server.py)
    active_connections,  \* Server.active_connections
    has_connected,       \* Server.has_connected
    message_buffer,      \* Server.message_buffer
    lockHolder,          \* the task inside "async with self._lock" across a suspension
    lockWaiters,         \* asyncio.Lock._waiters of Server._lock (FIFO)
    connPc,              \* per connection: where its Server.start coroutine is
    fwdPc,               \* the send_data task of __init__.py
    fwdMsg,              \* the event send_data is broadcasting
    nextEvent,           \* events are numbered in the order send_data takes them
    flushPc,             \* the _flush_buffer task
    flushMsgs,           \* _flush_buffer's local "messages", not yet broadcast
    sent,                \* per connection: the events passed to ws.send_text, in order
    \* ---- history of the server run (read by the properties only)
    everBuffered,        \* the events appended to message_buffer, in order
    firstConn,           \* the connection that set has_connected, 0 before
    issuedAfter,         \* events whose broadcast() was called with has_connected set
    issuedEmpty,         \* ... and with active_connections empty at the call
    foundEmpty,          \* events whose _real_broadcast found active_connections empty
    rejectCode,          \* per connection: the close code Server.start sent to reject it (0: none)
    flushStarts,         \* asyncio.create_task(self._flush_buffer()) calls so far
    \* ---- frame reassembly of one receiver
    rcv,                 \* the receiver: "server", "task" or "thread"
    wireFrames,          \* the frames the peer sent, in order
    wire,                \* the characters not yet delivered by a read
    rbuf,                \* the receiver's local "buffer" (the threaded client has none)
    dispatched,          \* the texts handed to ProtocolMessage.decode
    \* ---- history of the reads (read by the properties only)
    rpos,                \* characters delivered so far
    lastFrom,            \* rpos before the last read
    lastRead,            \* the text the last read returned
    dispatchedBefore,    \* Len(dispatched) before the last read
    partial,             \* the last read that began a frame and ended inside it
    rloop,               \* the receive loop has not ended
    decoded              \* the texts decoded and handed on to the dispatcher or the
                         \* message callback, in order

VARIABLES
    \* ---- threaded client (lazytea client.py)
    wsPc,                \* WebSocketWorker.run: where the worker thread is
    wStop,               \* WebSocketWorker.stop_event
    hbPc,                \* HeartbeatWorker.run
    hStop,               \* HeartbeatWorker.stop_event
    ws,                  \* WebSocketClient.ws is not None
    sock,                \* the websocket behind it: "none", "open", "closed"
    connected,           \* WebSocketClient._connected
    workersStarted,      \* WebSocketClient._workers_started
    sigQueue,            \* WorkerSignals emitted and not yet handled by their slots
    startedFlag,         \* MessageHandler._started_emitted_this_session
    pending,             \* the keys of MessageHandler._pending_requests
    issued,              \* the requests send_request has been called for
    hasSucc,             \* the callers pass a success_signal to send_request
    hasErr,              \* the callers pass an error_signal to send_request
    timerSt,             \* per request: its QTimer
    inbox,               \* response frames written by the server, not yet read
    onWire,              \* requests at the server, not yet answered
    sentOk,              \* requests whose frame the socket took (send_raw_message: True)
    \* ---- history of the threaded client (read by the properties only)
    outcomes,            \* per request: what its caller's signals were sent, in order
    attempts,            \* connect() calls so far
    fakes,               \* forged responses so far
    stopCalled,          \* MessageHandler.stop has been called
    stopCleared,         \* the requests that were pending when stop() cleared the table
    notified,            \* the states passed to connection_cb, in order
    runStarts,           \* how often run() handed the two workers to the thread pool
    lost,                \* the worker found the connection lost with no stop requested
    lostPending          \* the requests pending when the worker found the connection lost

VARIABLES
    \* ---- task client (noobui client.py)
    tws,                 \* WebSocketClient.ws: "none", "open", or "closed" (ws.closed)
    pending_requests,    \* the keys of MessageHandler.pending_requests
    future,              \* per request: the state of its asyncio.Future
    tPc,                 \* per request: where its send_request call is
    waitArg,             \* per request: the wait argument
    tOnWire,             \* requests at the server, not yet answered
    tInbox,              \* response frames written by the server, not yet handled
    \* ---- history of the task client (read by the properties only)
    observed,            \* per request: what its caller got from the call or the future
    queues,              \* MessageHandler.queues: the broadcasts put into them so far
    tUnsent              \* the requests whose frame send_raw_message did not send

VARIABLES
    \* ---- connection manager of the task client (noobui client.py)
    mPc,                 \* where the _connection_manager task is
    retries,             \* _establish_connection: retries
    active,              \* WebSocketClient.active
    rcvTask,             \* the _receiver task
    hbTask,              \* the _heartbeat task
    \* ---- history of the manager (read by the properties only)
    slept,               \* the asyncio.sleep durations of _establish_connection, in order
    tAttempts            \* websockets.connect calls so far

VARIABLES
    \* ---- the server's dispatcher on one connection (server.py)
    dFrames,             \* the decoded frames the connection sends, in order
    dNext,               \* how many of them _process_message has handled
    dOpen,               \* the connection is open (ws.send_text succeeds)
    dSent,               \* the frames the server sent on the connection, in order
    \* ---- history of the dispatcher (read by the properties only)
    dInvoked,            \* the frames for which a handler's body ran
    dActive,             \* the frames _process_message was called for and has not
                         \* returned from
    dOrder               \* the frames in the order _process_message returned for them

VARIABLES
    \* ---- message routing of the threaded client (MessageHandler.sort_data)
    signal_dict,         \* MessageHandler.signal_dict: a list of signals per type that
                         \* has a key
    sigState,            \* per signal: "live", "deleted" (emit raises RuntimeError
                         \* "... already deleted"), "failing" (emit raises something else)
    fQueue,              \* the messages still to be handed to sort_data, in order
    \* ---- history of the routing (read by the properties only)
    delivered,           \* per signal: the message types emitted to it, in order
    fRaised,             \* sort_data calls that ended with an exception
    fDiscarded,          \* responses sorted whose correlation_id no pending request had
    fUnsub,              \* the unsubscribe call whose step led here (signal and the
                         \* types given, none for all), or NoCall
    fMissed,             \* live signals subscribed to a broadcast's type that it was
                         \* not emitted to
    fSubscribed          \* subscribe calls so far

VARIABLES
    \* ---- client.lock of the threaded client (lazytea client.py)
    lockOwner,           \* the thread inside "with self.lock", or "none"
    lPc,                 \* per thread: where it is
    lIo,                 \* per thread: the socket operation it is blocked in, or "none"
    lWs,                 \* client.ws is set
    lConn,               \* client._connected
    lStop,               \* ws_worker.stop_event
    lSig,                \* connection_state signals queued to the owner thread
    lSends               \* send_raw_message calls so far

VARIABLES
    \* ---- the type queues of the task client (noobui client.py)
    typeQueues,
    gPut,
    gTaken,
    gReturned

VARIABLES
    \* ---- send_request of the threaded client against stop() (lazytea client.py)
    qPc,
    qCur,
    qPending,
    qTimer,
    qNotes,
    qConn,
    qStopPc,
    qFailed,
    qErr

VARIABLES
    \* ---- the started signal of the threaded client (lazytea client.py)
    sStarted,
    sNotes,
    sEmitted

serverVars == <<active_connections, has_connected, message_buffer, lockHolder,
                lockWaiters, connPc, fwdPc, fwdMsg, nextEvent, flushPc, flushMsgs,
                sent, everBuffered, firstConn, issuedAfter, issuedEmpty, foundEmpty,
                rejectCode, flushStarts>>

framingVars == <<rcv, wireFrames, wire, rbuf, dispatched, rpos, lastFrom, lastRead,
                 dispatchedBefore, partial, rloop, decoded>>

connVars == <<wsPc, wStop, hbPc, hStop, ws, sock, connected, workersStarted, sigQueue,
              startedFlag, attempts, lost, lostPending>>
corrRest == <<pending, issued, hasSucc, hasErr, timerSt, onWire, sentOk, outcomes, fakes,
              stopCalled, stopCleared>>
corrVars == <<inbox, corrRest>>
threadVars == <<connVars, corrVars, notified, runStarts>>

taskVars == <<tws, pending_requests, future, tPc, waitArg, tOnWire, tInbox, observed,
             queues, tUnsent>>

\* the task client's MessageHandler without the socket
taskRest == <<pending_requests, future, tPc, waitArg, tOnWire, tInbox, observed,
             queues, tUnsent>>

managerVars == <<mPc, retries, active, rcvTask, hbTask, slept, tAttempts>>

dispatchVars == <<dFrames, dNext, dOpen, dSent, dInvoked, dActive, dOrder>>

fanoutVars == <<signal_dict, sigState, fQueue, delivered, fRaised, fDiscarded,
               fMissed, fUnsub, fSubscribed>>

\* the threaded client's pending table, which sort_data reaches through
\* _handle_response
tableVars == <<pending, timerSt, outcomes>>

\* the threaded client without the pending table
threadRest == <<connVars, inbox, issued, hasSucc, hasErr, onWire, sentOk, fakes,
                stopCalled, stopCleared, notified, runStarts>>

lockVars == <<lockOwner, lPc, lIo, lWs, lConn, lStop, lSig, lSends>>

\* the parts added last
getVars == <<typeQueues, gPut, gTaken, gReturned>>

sendreqVars == <<qPc, qCur, qPending, qTimer, qNotes, qConn, qStopPc, qFailed, qErr>>

sessionVars == <<sStarted, sNotes, sEmitted>>

laterVars == <<lockVars, getVars, sendreqVars, sessionVars>>

vars == <<part, serverVars, framingVars, threadVars, taskVars, managerVars,
          dispatchVars, fanoutVars, laterVars>>

\* what the steps of each part leave alone
notServer == <<part, framingVars, threadVars, taskVars, managerVars, dispatchVars,
               fanoutVars, laterVars>>
notFraming == <<part, serverVars, threadVars, taskVars, managerVars, dispatchVars,
                fanoutVars, laterVars>>
notThread == <<part, serverVars, framingVars, taskVars, managerVars, dispatchVars,
               fanoutVars, laterVars>>
notTask == <<part, serverVars, framingVars, threadVars, managerVars, dispatchVars,
             fanoutVars, laterVars>>
notManager == <<part, serverVars, framingVars, threadVars, taskRest, dispatchVars,
                fanoutVars, laterVars>>
notDispatch == <<part, serverVars, framingVars, threadVars, taskVars, managerVars,
                 fanoutVars, laterVars>>
notFanout == <<part, serverVars, framingVars, threadRest, taskVars, managerVars,
               dispatchVars, laterVars>>
notLock == <<part, serverVars, framingVars, threadVars, taskVars, managerVars,
             dispatchVars, fanoutVars, getVars, sendreqVars, sessionVars>>

notGet == <<part, serverVars, framingVars, threadVars, taskVars, managerVars,
    dispatchVars, fanoutVars, lockVars, sendreqVars, sessionVars>>

notSendreq == <<part, serverVars, framingVars, threadVars, taskVars, managerVars,
    dispatchVars, fanoutVars, lockVars, getVars, sessionVars>>

notSession == <<part, serverVars, framingVars, threadVars, taskVars, managerVars,
    dispatchVars, fanoutVars, lockVars, getVars, sendreqVars>>

\* ------------------------------------------------------------ Server
NoTask == <<"none", 0>>
ConnTask(c) == <<"conn", c>>
FwdTask == <<"fwd", 0>>
FlushTask == <<"flush", 0>>

\* asyncio.Lock.acquire returns without suspending iff the lock is unlocked and
\* nobody waits for it
LockFree == lockHolder = NoTask /\ lockWaiters = <<>>

\* asyncio.Lock.release: the first waiter is woken and is the next holder
ReleasedHolder == IF lockWaiters = <<>> THEN NoTask ELSE Head(lockWaiters)
ReleasedWaiters == IF lockWaiters = <<>> THEN <<>> ELSE Tail(lockWaiters)

\* Server.start: the code of "websocket.close(code=4000)"
RejectCode == 4000

\* Server.start calls "websocket.close(code=4000)" without await: the coroutine
\* object is dropped, its body never runs and no close message is sent
CloseRuns == FALSE

InitServer ==
    /\ rejectCode = [c \in Conns |-> 0]
    /\ active_connections = {}
    /\ has_connected = FALSE
    /\ message_buffer = <<>>
    /\ lockHolder = NoTask
    /\ lockWaiters = <<>>
    /\ connPc = [c \in Conns |-> "new"]
    /\ fwdPc = "idle"
    /\ fwdMsg = 0
    /\ nextEvent = 1
    /\ flushPc = "none"
    /\ flushMsgs = <<>>
    /\ sent = [c \in Conns |-> <<>>]
    /\ everBuffered = <<>>
    /\ firstConn = 0
    /\ issuedAfter = {}
    /\ issuedEmpty = {}
    /\ foundEmpty = {}
    /\ flushStarts = 0

SendToEvery(log, m) == [c \in Conns |-> Append(log[c], m)]

\* ws.send_text(encoded) for every ws in list(self.active_connections)
SendToAll(log, m) ==
    [c \in Conns |-> IF c \in active_connections THEN Append(log[c], m) ELSE log[c]]

PrependBuffer(buf, m) == <<m>> \o buf

\* self.message_buffer.append((message_type, data))
AppendBuffer(buf, m) == Append(buf, m)

SeqRange(s) == {s[i] : i \in 1..Len(s)}

\* Server.start up to "await websocket.accept()": the token check
ConnStart(c) ==
    /\ part = "server"
    /\ UNCHANGED notServer
    /\ connPc[c] = "new"
    /\ \E tokenOk \in BOOLEAN :
          /\ connPc' = [connPc EXCEPT ![c] = IF tokenOk THEN "accepting" ELSE "rejected"]
          /\ rejectCode' = [rejectCode EXCEPT ![c] =
                                IF ~tokenOk /\ CloseRuns THEN RejectCode ELSE @]
    /\ UNCHANGED <<active_connections, has_connected, message_buffer, lockHolder,
                   lockWaiters, fwdPc, fwdMsg, nextEvent, flushPc, flushMsgs, sent,
                   everBuffered, firstConn, issuedAfter, issuedEmpty, foundEmpty,
                   flushStarts>>

EveryConnection == TRUE

\* Server.start: "if not self.has_connected:"
FirstConnection == ~has_connected

\* the body of "async with self._lock" in Server.start; it never suspends
AddConnection(c) ==
    /\ active_connections' = active_connections \cup {c}
    /\ has_connected' = TRUE
    /\ flushPc' = IF FirstConnection THEN "scheduled" ELSE flushPc
    /\ flushStarts' = IF FirstConnection THEN flushStarts + 1 ELSE flushStarts
    /\ firstConn' = IF has_connected THEN firstConn ELSE c

\* accept() has returned: the coroutine runs on to receive_text(), or suspends
\* on the lock
ConnAccepted(c) ==
    /\ part = "server"
    /\ UNCHANGED notServer
    /\ UNCHANGED rejectCode
    /\ connPc[c] = "accepting"
    /\ IF LockFree
          THEN /\ AddConnection(c)
               /\ connPc' = [connPc EXCEPT ![c] = "receiving"]
               /\ UNCHANGED lockWaiters
          ELSE /\ lockWaiters' = Append(lockWaiters, ConnTask(c))
               /\ connPc' = [connPc EXCEPT ![c] = "wait_add"]
               /\ UNCHANGED <<active_connections, has_connected, flushPc, firstConn,
                              flushStarts>>
    /\ UNCHANGED <<message_buffer, lockHolder, fwdPc, fwdMsg, nextEvent, flushMsgs,
                   sent, everBuffered, issuedAfter, issuedEmpty, foundEmpty>>

ConnAddWoken(c) ==
    /\ part = "server"
    /\ UNCHANGED notServer
    /\ UNCHANGED rejectCode
    /\ connPc[c] = "wait_add"
    /\ lockHolder = ConnTask(c)
    /\ AddConnection(c)
    /\ lockHolder' = ReleasedHolder
    /\ lockWaiters' = ReleasedWaiters
    /\ connPc' = [connPc EXCEPT ![c] = "receiving"]
    /\ UNCHANGED <<message_buffer, fwdPc, fwdMsg, nextEvent, flushMsgs, sent,
                   everBuffered, issuedAfter, issuedEmpty, foundEmpty>>

\* receive_text() raised (WebSocketDisconnect or any other exception): the
\* finally clause runs _cleanup_connection
ConnDisconnect(c) ==
    /\ part = "server"
    /\ UNCHANGED notServer
    /\ UNCHANGED <<rejectCode, flushStarts>>
    /\ connPc[c] = "receiving"
    /\ IF LockFree
          THEN /\ active_connections' = active_connections \ {c}
               /\ \E suspends \in BOOLEAN :   \* whether "await ws.close()" suspends
                     IF suspends
                        THEN /\ lockHolder' = ConnTask(c)
                             /\ connPc' = [connPc EXCEPT ![c] = "closing"]
                        ELSE /\ lockHolder' = lockHolder
                             /\ connPc' = [connPc EXCEPT ![c] = "closed"]
               /\ UNCHANGED lockWaiters
          ELSE /\ lockWaiters' = Append(lockWaiters, ConnTask(c))
               /\ connPc' = [connPc EXCEPT ![c] = "wait_cleanup"]
               /\ UNCHANGED <<active_connections, lockHolder>>
    /\ UNCHANGED <<has_connected, message_buffer, fwdPc, fwdMsg, nextEvent, flushPc,
                   flushMsgs, sent, everBuffered, firstConn, issuedAfter, issuedEmpty, foundEmpty>>

ConnCleanupWoken(c) ==
    /\ part = "server"
    /\ UNCHANGED notServer
    /\ UNCHANGED <<rejectCode, flushStarts>>
    /\ connPc[c] = "wait_cleanup"
    /\ lockHolder = ConnTask(c)
    /\ active_connections' = active_connections \ {c}
    /\ \E suspends \in BOOLEAN :
          IF suspends
             THEN /\ connPc' = [connPc EXCEPT ![c] = "closing"]
                  /\ UNCHANGED <<lockHolder, lockWaiters>>
             ELSE /\ connPc' = [connPc EXCEPT ![c] = "closed"]
                  /\ lockHolder' = ReleasedHolder
                  /\ lockWaiters' = ReleasedWaiters
    /\ UNCHANGED <<has_connected, message_buffer, fwdPc, fwdMsg, nextEvent, flushPc,
                   flushMsgs, sent, everBuffered, firstConn, issuedAfter, issuedEmpty, foundEmpty>>

\* ws.close() has returned inside _cleanup_connection
ConnCloseDone(c) ==
    /\ part = "server"
    /\ UNCHANGED notServer
    /\ UNCHANGED <<rejectCode, flushStarts>>
    /\ connPc[c] = "closing"
    /\ lockHolder' = ReleasedHolder
    /\ lockWaiters' = ReleasedWaiters
    /\ connPc' = [connPc EXCEPT ![c] = "closed"]
    /\ UNCHANGED <<active_connections, has_connected, message_buffer, fwdPc, fwdMsg,
                   nextEvent, flushPc, flushMsgs, sent, everBuffered, firstConn,
                   issuedAfter, issuedEmpty, foundEmpty>>

BuffersWhenNobodyAttached == ~has_connected \/ active_connections = {}

\* "if not self.has_connected": broadcast() buffers its message instead of sending it
Buffers == ~has_connected

\* send_data: "type, data = await queue.get(); await server.broadcast(type, data)",
\* up to the first suspension of broadcast
FwdBroadcast ==
    /\ part = "server"
    /\ UNCHANGED notServer
    /\ UNCHANGED <<rejectCode, flushStarts>>
    /\ fwdPc = "idle"
    /\ nextEvent <= MaxEvents
    /\ nextEvent' = nextEvent + 1
    /\ issuedAfter' = IF has_connected THEN issuedAfter \cup {nextEvent} ELSE issuedAfter
    /\ issuedEmpty' = IF has_connected /\ active_connections = {}
                         THEN issuedEmpty \cup {nextEvent} ELSE issuedEmpty
    /\ IF Buffers
          THEN /\ message_buffer' = AppendBuffer(message_buffer, nextEvent)
               /\ everBuffered' = Append(everBuffered, nextEvent)
               /\ UNCHANGED <<lockHolder, lockWaiters, fwdPc, fwdMsg, sent, foundEmpty>>
          ELSE /\ fwdMsg' = nextEvent
               /\ UNCHANGED <<message_buffer, everBuffered>>
               /\ IF LockFree
                     THEN IF active_connections = {}
                             THEN /\ foundEmpty' = foundEmpty \cup {nextEvent}
                                  /\ UNCHANGED <<lockHolder, lockWaiters, fwdPc, sent>>
                             ELSE /\ sent' = SendToAll(sent, nextEvent)
                                  /\ lockHolder' = FwdTask
                                  /\ fwdPc' = "gather"
                                  /\ UNCHANGED <<lockWaiters, foundEmpty>>
                     ELSE /\ lockWaiters' = Append(lockWaiters, FwdTask)
                          /\ fwdPc' = "wait"
                          /\ UNCHANGED <<lockHolder, sent, foundEmpty>>
    /\ UNCHANGED <<active_connections, has_connected, connPc, flushPc, flushMsgs,
                   firstConn>>

\* _real_broadcast resumed with the lock
FwdWoken ==
    /\ part = "server"
    /\ UNCHANGED notServer
    /\ UNCHANGED <<rejectCode, flushStarts>>
    /\ fwdPc = "wait"
    /\ lockHolder = FwdTask
    /\ IF active_connections = {}
          THEN /\ foundEmpty' = foundEmpty \cup {fwdMsg}
               /\ lockHolder' = ReleasedHolder
               /\ lockWaiters' = ReleasedWaiters
               /\ fwdPc' = "idle"
               /\ UNCHANGED sent
          ELSE /\ sent' = SendToAll(sent, fwdMsg)
               /\ fwdPc' = "gather"
               /\ UNCHANGED <<lockHolder, lockWaiters, foundEmpty>>
    /\ UNCHANGED <<active_connections, has_connected, message_buffer, connPc, fwdMsg,
                   nextEvent, flushPc, flushMsgs, everBuffered, firstConn, issuedAfter, issuedEmpty>>

\* asyncio.gather returned: the lock is released and send_data awaits the queue
FwdGatherDone ==
    /\ part = "server"
    /\ UNCHANGED notServer
    /\ UNCHANGED <<rejectCode, flushStarts>>
    /\ fwdPc = "gather"
    /\ lockHolder' = ReleasedHolder
    /\ lockWaiters' = ReleasedWaiters
    /\ fwdPc' = "idle"
    /\ UNCHANGED <<active_connections, has_connected, message_buffer, connPc, fwdMsg,
                   nextEvent, flushPc, flushMsgs, sent, everBuffered, firstConn,
                   issuedAfter, issuedEmpty, foundEmpty>>

\* the order in which _flush_buffer broadcasts its copy: "for msg_type, data in messages"
FlushOrder(msgs) == msgs

\* _flush_buffer's loop over "rest", entered with the lock in state (holder, waiters),
\* run up to its next suspension
FlushContinue(rest, holder, waiters, log, found) ==
    IF rest = <<>>
       THEN /\ flushPc' = "done"
            /\ flushMsgs' = <<>>
            /\ lockHolder' = holder
            /\ lockWaiters' = waiters
            /\ sent' = log
            /\ foundEmpty' = found
       ELSE IF holder = NoTask /\ waiters = <<>>
               THEN IF active_connections = {}
                       THEN /\ flushPc' = "done"
                            /\ flushMsgs' = <<>>
                            /\ foundEmpty' = found \cup SeqRange(rest)
                            /\ lockHolder' = holder
                            /\ lockWaiters' = waiters
                            /\ sent' = log
                       ELSE /\ flushPc' = "gather"
                            /\ flushMsgs' = rest
                            /\ sent' = SendToAll(log, Head(rest))
                            /\ lockHolder' = FlushTask
                            /\ lockWaiters' = waiters
                            /\ foundEmpty' = found
               ELSE /\ flushPc' = "wait"
                    /\ flushMsgs' = rest
                    /\ lockHolder' = holder
                    /\ lockWaiters' = Append(waiters, FlushTask)
                    /\ sent' = log
                    /\ foundEmpty' = found

\* the task created by asyncio.create_task(self._flush_buffer()) starts running
FlushRun ==
    /\ part = "server"
    /\ UNCHANGED notServer
    /\ UNCHANGED <<rejectCode, flushStarts>>
    /\ flushPc = "scheduled"
    /\ message_buffer' = <<>>
    /\ FlushContinue(FlushOrder(message_buffer), lockHolder, lockWaiters, sent, foundEmpty)
    /\ UNCHANGED <<active_connections, has_connected, connPc, fwdPc, fwdMsg, nextEvent,
                   everBuffered, firstConn, issuedAfter, issuedEmpty>>

FlushWoken ==
    /\ part = "server"
    /\ UNCHANGED notServer
    /\ UNCHANGED <<rejectCode, flushStarts>>
    /\ flushPc = "wait"
    /\ lockHolder = FlushTask
    /\ IF active_connections = {}
          THEN FlushContinue(Tail(flushMsgs), ReleasedHolder, ReleasedWaiters, sent,
                             foundEmpty \cup {Head(flushMsgs)})
          ELSE /\ sent' = SendToAll(sent, Head(flushMsgs))
               /\ flushPc' = "gather"
               /\ UNCHANGED <<lockHolder, lockWaiters, flushMsgs, foundEmpty>>
    /\ UNCHANGED <<active_connections, has_connected, message_buffer, connPc, fwdPc,
                   fwdMsg, nextEvent, everBuffered, firstConn, issuedAfter, issuedEmpty>>

FlushGatherDone ==
    /\ part = "server"
    /\ UNCHANGED notServer
    /\ UNCHANGED <<rejectCode, flushStarts>>
    /\ flushPc = "gather"
    /\ FlushContinue(Tail(flushMsgs), ReleasedHolder, ReleasedWaiters, sent, foundEmpty)
    /\ UNCHANGED <<active_connections, has_connected, message_buffer, connPc, fwdPc,
                   fwdMsg, nextEvent, everBuffered, firstConn, issuedAfter, issuedEmpty>>

NextServer ==
    \/ \E c \in Conns : ConnStart(c)
    \/ \E c \in Conns : ConnAccepted(c)
    \/ \E c \in Conns : ConnAddWoken(c)
    \/ \E c \in Conns : ConnDisconnect(c)
    \/ \E c \in Conns : ConnCleanupWoken(c)
    \/ \E c \in Conns : ConnCloseDone(c)
    \/ FwdBroadcast
    \/ FwdWoken
    \/ FwdGatherDone
    \/ FlushRun
    \/ FlushWoken
    \/ FlushGatherDone

\* ------------------------------------------------------ frame reassembly
Chars == {"a", "b"}

\* ProtocolMessage.SEPARATOR: a fixed string that no encoded frame contains
SEPARATOR == <<"#", "$">>

Receivers == {"server", "task", "thread"}

\* the encoded frames the peer may send: non-empty texts without the separator
FrameTexts == UNION {[1..n -> Chars] : n \in 1..MaxFrameLen}

RECURSIVE WireOf(_)
\* what the peer writes: every frame followed by the separator
WireOf(frames) ==
    IF frames = <<>> THEN <<>>
    ELSE Head(frames) \o SEPARATOR \o WireOf(Tail(frames))

\* "SEPARATOR in s" and the place of its first occurrence (0: none)
SepAt(s, i) == i + Len(SEPARATOR) - 1 <= Len(s)
               /\ SubSeq(s, i, i + Len(SEPARATOR) - 1) = SEPARATOR
HasSep(s) == \E i \in 1..Len(s) : SepAt(s, i)
FirstSep(s) == CHOOSE i \in 1..Len(s) : SepAt(s, i) /\ \A j \in 1..(i - 1) : ~SepAt(s, j)

\* s.split(SEPARATOR, 1) for an s that holds the separator
SplitOnce(s) ==
    <<SubSeq(s, 1, FirstSep(s) - 1), SubSeq(s, FirstSep(s) + Len(SEPARATOR), Len(s))>>

RECURSIVE Drain(_, _)
\* "while SEPARATOR in buffer: msg, buffer = buffer.split(SEPARATOR, 1); process(msg)":
\* <<the texts processed, the buffer left>>
Drain(buf, msgs) ==
    IF HasSep(buf)
       THEN Drain(SplitOnce(buf)[2], Append(msgs, SplitOnce(buf)[1]))
       ELSE <<msgs, buf>>

\* WebSocketWorker._handle_message: the texts it decodes from one read
HandleMessage(raw) ==
    IF HasSep(raw) THEN <<SplitOnce(raw)[1]>> ELSE <<>>

\* where frame k of the peer ends on the wire (after its separator); 0 for k = 0
BoundaryPos(k) == Len(WireOf(SubSeq(wireFrames, 1, k)))

\* the frames wholly delivered within the first pos characters
FramesUpTo(pos) ==
    CHOOSE k \in 0..Len(wireFrames) :
        /\ BoundaryPos(k) <= pos
        /\ \A j \in 0..Len(wireFrames) : BoundaryPos(j) <= pos => j <= k

NoPartial == [frame |-> 0, count |-> 0]

IdleFraming ==
    /\ rcv = "none"
    /\ wireFrames = <<>>
    /\ wire = <<>>
    /\ rbuf = <<>>
    /\ dispatched = <<>>
    /\ rpos = 0
    /\ lastFrom = 0
    /\ lastRead = <<>>
    /\ dispatchedBefore = 0
    /\ partial = NoPartial
    /\ rloop = TRUE
    /\ decoded = <<>>

InitFraming ==
    /\ rcv \in Receivers
    /\ wireFrames \in UNION {[1..n -> FrameTexts] : n \in 1..MaxFrames}
    /\ wire = WireOf(wireFrames)
    /\ rbuf = <<>>
    /\ dispatched = <<>>
    /\ rpos = 0
    /\ lastFrom = 0
    /\ lastRead = <<>>
    /\ dispatchedBefore = 0
    /\ partial = NoPartial
    /\ rloop = TRUE
    /\ decoded = <<>>

\* the texts ProtocolMessage.decode yields a header and a payload for
WellFormed(text) == text # <<>> /\ text[1] = "a"

\* how ProtocolMessage.decode fails on any other text: it returns no header,
\* or raises ValidationError
DecodeFailures == {"no_header", "ValidationError"}

EndsOnFailure(r, how) == FALSE

\* whether the receive loop goes on after a text that failed to decode.
\* Server._process_message: "if not header: ... return", "except Exception";
\* _process_raw_message of the task client: "if header:", "except
\* ValidationError"; WebSocketWorker._handle_message: "if header:", "except
\* (ValidationError, Exception)"
Survives(r, how) ==
    CASE r = "server" -> TRUE
      [] r = "task" -> how \in {"no_header", "ValidationError"}
      [] r = "thread" -> TRUE

RECURSIVE Process(_, _, _, _, _, _)
\* the loop body for the texts split off one read, in order, until the loop
\* ends: <<the texts processed, the texts decoded and handed on, loop alive>>
Process(texts, r, how, done, out, alive) ==
    IF texts = <<>> \/ ~alive
       THEN <<done, out, alive>>
       ELSE IF WellFormed(Head(texts))
               THEN Process(Tail(texts), r, how, Append(done, Head(texts)),
                            Append(out, Head(texts)), alive)
               ELSE Process(Tail(texts), r, how, Append(done, Head(texts)),
                            out, Survives(r, how))

\* the bookkeeping of one read of n characters
ReadHistory(n) ==
    /\ wire' = SubSeq(wire, n + 1, Len(wire))
    /\ rpos' = rpos + n
    /\ lastFrom' = rpos
    /\ lastRead' = SubSeq(wire, 1, n)
    /\ dispatchedBefore' = Len(dispatched)
    /\ partial' =
          IF /\ \E k \in 0..(Len(wireFrames) - 1) :
                   rpos = BoundaryPos(k) /\ rpos + n < BoundaryPos(k + 1)
             THEN [frame |-> FramesUpTo(rpos) + 1, count |-> Len(dispatched)]
             ELSE IF partial.frame # 0 /\ rpos + n <= BoundaryPos(partial.frame)
                     THEN partial
                     ELSE NoPartial

\* the texts of one read go through the loop body
Dispatch(texts) ==
    \E how \in DecodeFailures :
        /\ dispatched' = dispatched \o Process(texts, rcv, how, <<>>, <<>>, TRUE)[1]
        /\ decoded' = decoded \o Process(texts, rcv, how, <<>>, <<>>, TRUE)[2]
        /\ rloop' = Process(texts, rcv, how, <<>>, <<>>, TRUE)[3]

\* Server.start: "raw_data = await websocket.receive_text(); buffer += raw_data;
\* while SEPARATOR in buffer: ..."
ServerReceive(n) ==
    /\ part = "framing"
    /\ UNCHANGED notFraming
    /\ rcv = "server"
    /\ rloop
    /\ ReadHistory(n)
    /\ rbuf' = Drain(rbuf \o SubSeq(wire, 1, n), <<>>)[2]
    /\ Dispatch(Drain(rbuf \o SubSeq(wire, 1, n), <<>>)[1])
    /\ UNCHANGED <<rcv, wireFrames>>

\* WebSocketClient._receiver of the task client: the same loop over "async for"
TaskReceive(n) ==
    /\ part = "framing"
    /\ UNCHANGED notFraming
    /\ rcv = "task"
    /\ rloop
    /\ ReadHistory(n)
    /\ rbuf' = Drain(rbuf \o SubSeq(wire, 1, n), <<>>)[2]
    /\ Dispatch(Drain(rbuf \o SubSeq(wire, 1, n), <<>>)[1])
    /\ UNCHANGED <<rcv, wireFrames>>

\* WebSocketWorker.run of the threaded client: "message = websocket.recv(timeout=1);
\* if message: self._handle_message(message)"
ThreadReceive(n) ==
    /\ part = "framing"
    /\ UNCHANGED notFraming
    /\ rcv = "thread"
    /\ rloop
    /\ ReadHistory(n)
    /\ Dispatch(HandleMessage(SubSeq(wire, 1, n)))
    /\ UNCHANGED <<rcv, wireFrames, rbuf>>

NextFraming ==
    \/ \E n \in 1..Len(wire) : ServerReceive(n)
    \/ \E n \in 1..Len(wire) : TaskReceive(n)
    \/ \E n \in 1..Len(wire) : ThreadReceive(n)

\* ------------------------------------------------------ threaded client
\* The worker and the heartbeat run on pool threads.  MessageHandler and the
\* slots of WebSocketClient run on the thread that owns them: Qt queues the
\* worker's signals and the timers' expiries to that thread's event loop, so
\* each slot and each MessageHandler method is one step; the state shared with
\* the pool threads (ws, _connected, _workers_started) is guarded by client.lock.
StateSig(b) == [kind |-> "state", on |-> b, id |-> 0, err |-> FALSE]
MsgSig(r, e) == [kind |-> "msg", on |-> FALSE, id |-> r, err |-> e]

InitThread ==
    /\ wsPc = "unstarted"
    /\ wStop = FALSE
    /\ hbPc = "unstarted"
    /\ hStop = FALSE
    /\ ws = FALSE
    /\ sock = "none"
    /\ connected = FALSE
    /\ workersStarted = FALSE
    /\ sigQueue = <<>>
    /\ startedFlag = FALSE
    /\ pending = {}
    /\ issued = {}
    /\ hasSucc \in BOOLEAN
    /\ hasErr \in BOOLEAN
    /\ timerSt = [r \in Reqs |-> "none"]
    /\ inbox = <<>>
    /\ onWire = {}
    /\ sentOk = {}
    /\ outcomes = [r \in Reqs |-> <<>>]
    /\ attempts = 0
    /\ fakes = 0
    /\ stopCalled = FALSE
    /\ stopCleared = {}
    /\ notified = <<>>
    /\ runStarts = 0
    /\ lost = FALSE
    /\ lostPending = {}

IdleThread == InitThread /\ hasSucc /\ hasErr

NeverStarted == FALSE

\* WebSocketClient.run: "if self._workers_started: return"
AlreadyStarted == workersStarted

\* WebSocketClient.run: hands the two workers to the thread pool unless
\* _workers_started. Only stop() resets _workers_started, and it sets both
\* stop events for good, so a worker handed over once more finds its
\* stop_event set and ends at its loop test without a trace.
ClientRun ==
    /\ part = "thread"
    /\ UNCHANGED notThread
    /\ UNCHANGED notified
    /\ IF AlreadyStarted
          THEN UNCHANGED <<workersStarted, wsPc, hbPc, runStarts>>
          ELSE /\ runStarts < MaxRuns
               /\ runStarts' = runStarts + 1
               /\ workersStarted' = TRUE
               /\ wsPc' = IF wsPc = "unstarted" THEN "top" ELSE wsPc
               /\ hbPc' = IF hbPc = "unstarted" THEN "run" ELSE hbPc
    /\ UNCHANGED <<wStop, hStop, ws, sock, connected, sigQueue, startedFlag, attempts,
                   lost, lostPending, corrVars>>

\* WebSocketWorker.run: "while not self.stop_event.is_set()", then connect()
WorkerLoopTop ==
    /\ part = "thread"
    /\ UNCHANGED notThread
    /\ UNCHANGED <<notified, runStarts>>
    /\ wsPc = "top"
    /\ IF wStop
          THEN wsPc' = "exited" /\ UNCHANGED attempts
          ELSE /\ attempts < MaxAttempts
               /\ attempts' = attempts + 1
               /\ wsPc' = "connecting"
    /\ UNCHANGED <<wStop, hbPc, hStop, ws, sock, connected, workersStarted, sigQueue,
                   startedFlag, lost, lostPending, corrVars>>

\* connect() returned a websocket: client.ws is set and connection_state(True) emitted
WorkerConnected ==
    /\ part = "thread"
    /\ UNCHANGED notThread
    /\ UNCHANGED <<notified, runStarts>>
    /\ wsPc = "connecting"
    /\ ws' = TRUE
    /\ sock' = "open"
    /\ sigQueue' = Append(sigQueue, StateSig(TRUE))
    /\ wsPc' = "recv"
    /\ UNCHANGED <<wStop, hbPc, hStop, connected, workersStarted, startedFlag, attempts,
                   lost, lostPending, corrVars>>

\* connect() raised: error emitted, then stop_event.wait(5)
WorkerConnectFailed ==
    /\ part = "thread"
    /\ UNCHANGED notThread
    /\ UNCHANGED <<notified, runStarts>>
    /\ wsPc = "connecting"
    /\ wsPc' = "wait5"
    /\ UNCHANGED <<wStop, hbPc, hStop, ws, sock, connected, workersStarted, sigQueue,
                   startedFlag, attempts, lost, lostPending, corrVars>>

\* the finally clause of WebSocketWorker.run: client.ws closed and reset,
\* connection_state(False) emitted
WorkerFinally ==
    /\ ws' = FALSE
    /\ sock' = IF ws THEN "closed" ELSE sock
    /\ sigQueue' = Append(sigQueue, StateSig(FALSE))
    /\ wsPc' = "top"

\* stop_event.wait(5) returned after a failed connect()
WorkerRetry ==
    /\ part = "thread"
    /\ UNCHANGED notThread
    /\ UNCHANGED <<notified, runStarts>>
    /\ wsPc = "wait5"
    /\ WorkerFinally
    /\ UNCHANGED <<wStop, hbPc, hStop, connected, workersStarted, startedFlag, attempts,
                   lost, lostPending, corrVars>>

\* recv() returned a frame; _handle_message emits message_received
WorkerRecv ==
    /\ part = "thread"
    /\ UNCHANGED notThread
    /\ UNCHANGED <<notified, runStarts>>
    /\ wsPc = "recv"
    /\ ~wStop
    /\ inbox # <<>>
    /\ sigQueue' = Append(sigQueue, Head(inbox))
    /\ inbox' = Tail(inbox)
    /\ UNCHANGED <<wsPc, wStop, hbPc, hStop, ws, sock, connected, workersStarted,
                   startedFlag, attempts, lost, lostPending, corrRest>>

\* recv() raised (ConnectionClosed or any other error): stop_event.set(); break;
\* then the finally clause
WorkerRecvFailed ==
    /\ part = "thread"
    /\ UNCHANGED notThread
    /\ UNCHANGED <<notified, runStarts>>
    /\ wsPc = "recv"
    /\ sock = "closed"
    /\ wStop' = TRUE
    /\ WorkerFinally
    /\ inbox' = <<>>
    /\ lost' = (lost \/ ~stopCalled)
    /\ lostPending' = IF stopCalled THEN lostPending ELSE lostPending \cup pending
    /\ UNCHANGED <<hbPc, hStop, connected, workersStarted, startedFlag, attempts,
                   corrRest>>

\* the inner loop sees stop_event set and ends; the with block and the finally
\* clause close the socket
WorkerStopSeen ==
    /\ part = "thread"
    /\ UNCHANGED notThread
    /\ UNCHANGED <<notified, runStarts>>
    /\ wsPc = "recv"
    /\ wStop
    /\ WorkerFinally
    /\ inbox' = <<>>
    /\ UNCHANGED <<wStop, hbPc, hStop, connected, workersStarted, startedFlag, attempts,
                   lost, lostPending, corrRest>>

\* the peer closes the connection, or the network fails
PeerClose ==
    /\ part = "thread"
    /\ UNCHANGED notThread
    /\ UNCHANGED <<notified, runStarts>>
    /\ sock = "open"
    /\ sock' = "closed"
    /\ UNCHANGED <<wsPc, wStop, hbPc, hStop, ws, connected, workersStarted, sigQueue,
                   startedFlag, attempts, lost, lostPending, corrVars>>

\* HeartbeatWorker.run: one round; the heartbeat frame itself leaves no trace,
\* a send on a closed socket resets _connected (send_raw_message)
HeartbeatTick ==
    /\ part = "thread"
    /\ UNCHANGED notThread
    /\ UNCHANGED <<notified, runStarts>>
    /\ hbPc = "run"
    /\ IF hStop
          THEN hbPc' = "exited" /\ UNCHANGED connected
          ELSE /\ connected /\ ws /\ sock = "closed"
               /\ connected' = FALSE
               /\ UNCHANGED hbPc
    /\ UNCHANGED <<wsPc, wStop, hStop, ws, sock, workersStarted, sigQueue, startedFlag,
                   attempts, lost, lostPending, corrVars>>

\* QTimer.stop(): an active timer is stopped, any other is left as it is
StopTimer(t) == IF t = "running" THEN "stopped" ELSE t

\* WebSocketClient.send_raw_message returns True
SendSucceeds == connected /\ ws /\ sock = "open"

\* send_request: the entry is registered and its timer started; a failed
\* send_raw_message (not connected, or ConnectionClosed, which resets _connected)
\* is followed by _cleanup_request and the "Failed to send request" error
SendRequest(r) ==
    /\ part = "thread"
    /\ UNCHANGED notThread
    /\ UNCHANGED <<notified, runStarts>>
    /\ r \notin issued
    /\ \A q \in Reqs : q < r => q \in issued
    /\ issued' = issued \cup {r}
    /\ outcomes' = IF ~SendSucceeds /\ hasErr
                      THEN [outcomes EXCEPT ![r] = Append(@, "sendfail")]
                      ELSE outcomes
    /\ IF SendSucceeds
          THEN /\ pending' = pending \cup {r}
               /\ timerSt' = [timerSt EXCEPT ![r] = "running"]
               /\ onWire' = onWire \cup {r}
               /\ sentOk' = sentOk \cup {r}
               /\ UNCHANGED connected
          ELSE /\ pending' = pending \ {r}
               /\ timerSt' = [timerSt EXCEPT ![r] = "stopped"]
               /\ connected' = IF connected /\ ws THEN FALSE ELSE connected
               /\ UNCHANGED <<onWire, sentOk>>
    /\ UNCHANGED <<wsPc, wStop, hbPc, hStop, ws, sock, workersStarted, sigQueue,
                   startedFlag, attempts, lost, lostPending, hasSucc, hasErr, inbox,
                   fakes, stopCalled, stopCleared>>

EmitsOnSuccessOnly(kind) == kind = "response" /\ hasSucc

\* which signal a handler emits to, if the caller gave it: _handle_timeout and
\* stop use error_signal, _handle_response error_signal for a payload with an
\* error and success_signal otherwise
Emits(kind) == IF kind = "response" THEN hasSucc ELSE hasErr

Notify(log, r, kind) ==
    IF Emits(kind) THEN [log EXCEPT ![r] = Append(@, kind)] ELSE log

ExpiredAll(r) == pending

\* _handle_timeout: the entries taken out by "self._pending_requests.pop(msg_id)"
Expired(r) == {r}

\* _handle_timeout: "if msg_id in self._pending_requests" (else: return)
TimerFire(r) ==
    /\ part = "thread"
    /\ UNCHANGED notThread
    /\ UNCHANGED <<notified, runStarts>>
    /\ timerSt[r] = "running"
    /\ timerSt' = [timerSt EXCEPT ![r] = "expired"]
    /\ pending' = pending \ Expired(r)
    /\ outcomes' = IF r \in pending THEN Notify(outcomes, r, "timeout") ELSE outcomes
    /\ UNCHANGED <<connVars, issued, hasSucc, hasErr, inbox, onWire, sentOk, fakes,
                   stopCalled, stopCleared>>

ResponseAlwaysConsumes(r) == TRUE

\* _handle_response: "if msg_id not in self._pending_requests: return"
ResponseConsumes(r) == r \in pending

OldestEntry(cid) ==
    IF pending = {} THEN cid ELSE CHOOSE q \in pending : \A o \in pending : q <= o

\* _handle_response: the entry "self._pending_requests.pop(msg_id)" takes,
\* msg_id being the response's correlation_id
EntryFor(cid) == cid

\* _handle_response
HandleResponse(r, isErr) ==
    /\ pending' = pending \ {EntryFor(r)}
    /\ timerSt' = IF ResponseConsumes(EntryFor(r))
                     THEN [timerSt EXCEPT ![EntryFor(r)] = StopTimer(@)]
                     ELSE timerSt
    /\ outcomes' = IF ResponseConsumes(EntryFor(r))
                      THEN Notify(outcomes, EntryFor(r), IF isErr THEN "error_response"
                                                         ELSE "response")
                      ELSE outcomes

\* the server answers a request it has read (Server._handle_request)
ServerRespond(r) ==
    /\ part = "thread"
    /\ UNCHANGED notThread
    /\ UNCHANGED <<notified, runStarts>>
    /\ r \in onWire
    /\ sock = "open"
    /\ onWire' = onWire \ {r}
    /\ \E e \in BOOLEAN : inbox' = Append(inbox, MsgSig(r, e))
    /\ UNCHANGED <<connVars, pending, issued, hasSucc, hasErr, timerSt, sentOk,
                   outcomes, fakes, stopCalled, stopCleared>>

\* the slot of the oldest emitted worker signal runs: _on_connection_state with
\* _handle_connection_change, or _on_message_received with sort_data
ProcessSignal ==
    /\ part = "thread"
    /\ UNCHANGED notThread
    /\ UNCHANGED runStarts
    /\ sigQueue # <<>>
    /\ sigQueue' = Tail(sigQueue)
    /\ IF Head(sigQueue).kind = "state"
          THEN /\ connected' = Head(sigQueue).on
               /\ notified' = Append(notified, Head(sigQueue).on)
               /\ startedFlag' = Head(sigQueue).on
               /\ UNCHANGED <<pending, timerSt, outcomes>>
          ELSE /\ HandleResponse(Head(sigQueue).id, Head(sigQueue).err)
               /\ UNCHANGED <<connected, startedFlag, notified>>
    /\ UNCHANGED <<wsPc, wStop, hbPc, hStop, ws, sock, workersStarted, attempts, lost,
                   lostPending, issued, hasSucc, hasErr, inbox, onWire, sentOk, fakes,
                   stopCalled, stopCleared>>

\* fake_message("response", payload, correlation_id): sort_data on a forged response
FakeResponse(r) ==
    /\ part = "thread"
    /\ UNCHANGED notThread
    /\ UNCHANGED <<notified, runStarts>>
    /\ fakes < MaxFake
    /\ fakes' = fakes + 1
    /\ r \in issued
    /\ \E e \in BOOLEAN : HandleResponse(r, e)
    /\ UNCHANGED <<connVars, issued, hasSucc, hasErr, inbox, onWire, sentOk,
                   stopCalled, stopCleared>>

TimerLeftByStop(t) == t

\* MessageHandler.stop: request_info["timer"].stop()
TimerAfterStop(t) == StopTimer(t)

\* MessageHandler.stop: stopping emitted, client.stop(), then every pending
\* request has its timer stopped and its error_signal sent the shutdown error,
\* and the table is cleared
Stop ==
    /\ part = "thread"
    /\ UNCHANGED notThread
    /\ UNCHANGED <<notified, runStarts>>
    /\ ~stopCalled
    /\ stopCalled' = TRUE
    /\ wStop' = TRUE
    /\ hStop' = TRUE
    /\ sock' = IF ws THEN "closed" ELSE sock
    /\ connected' = FALSE
    /\ workersStarted' = FALSE
    /\ timerSt' = [r \in Reqs |-> IF r \in pending THEN TimerAfterStop(timerSt[r])
                                  ELSE timerSt[r]]
    /\ outcomes' = [r \in Reqs |-> IF r \in pending /\ hasErr
                                     THEN Append(outcomes[r], "shutdown")
                                     ELSE outcomes[r]]
    /\ pending' = {}
    /\ stopCleared' = stopCleared \cup pending
    /\ UNCHANGED <<wsPc, hbPc, ws, sigQueue, startedFlag, attempts, lost, lostPending,
                   issued, hasSucc, hasErr, inbox, onWire, sentOk, fakes>>

NextThread ==
    \/ ClientRun
    \/ WorkerLoopTop
    \/ WorkerConnected
    \/ WorkerConnectFailed
    \/ WorkerRetry
    \/ WorkerRecv
    \/ WorkerRecvFailed
    \/ WorkerStopSeen
    \/ PeerClose
    \/ HeartbeatTick
    \/ \E r \in Reqs : SendRequest(r)
    \/ \E r \in Reqs : TimerFire(r)
    \/ \E r \in Reqs : ServerRespond(r)
    \/ ProcessSignal
    \/ \E r \in Reqs : FakeResponse(r)
    \/ Stop

\* ------------------------------------------------------ task client
\* noobui client.py: one asyncio event loop; a coroutine runs until it awaits
InitTask ==
    /\ tws = "none"
    /\ pending_requests = {}
    /\ future = [r \in Reqs |-> "none"]
    /\ tPc = [r \in Reqs |-> "free"]
    /\ waitArg = [r \in Reqs |-> FALSE]
    /\ tOnWire = {}
    /\ tInbox = <<>>
    /\ queues = 0
    /\ tUnsent = {}
    /\ observed = [r \in Reqs |-> <<>>]

\* _establish_connection: "self.ws = await websockets.connect(self.uri)"
TaskConnected ==
    /\ part = "task"
    /\ UNCHANGED notTask
    /\ UNCHANGED <<queues, tUnsent>>
    /\ tws = "none"
    /\ tws' = "open"
    /\ UNCHANGED <<pending_requests, future, tPc, waitArg, tOnWire, tInbox, observed>>

\* the peer closes the connection, or the network fails
TaskPeerClose ==
    /\ part = "task"
    /\ UNCHANGED notTask
    /\ UNCHANGED <<queues, tUnsent>>
    /\ tws = "open"
    /\ tws' = "closed"
    /\ UNCHANGED <<pending_requests, future, tPc, waitArg, tOnWire, tInbox, observed>>

\* send_request up to "await self.client.send_raw_message(message)"
TaskSendRequest(r) ==
    /\ part = "task"
    /\ UNCHANGED notTask
    /\ UNCHANGED <<queues, tUnsent>>
    /\ tPc[r] = "free"
    /\ \A q \in Reqs : q < r => tPc[q] # "free"
    /\ \E w \in BOOLEAN : waitArg' = [waitArg EXCEPT ![r] = w]
    /\ future' = [future EXCEPT ![r] = "pending"]
    /\ pending_requests' = pending_requests \cup {r}
    /\ tPc' = [tPc EXCEPT ![r] = "sending"]
    /\ UNCHANGED <<tws, tOnWire, tInbox, observed>>

\* send_raw_message: sends if "self.ws and not self.ws.closed", else does nothing;
\* then send_request returns the future (wait=False) or enters wait_for
TaskSendDone(r) ==
    /\ part = "task"
    /\ UNCHANGED notTask
    /\ UNCHANGED queues
    /\ tPc[r] = "sending"
    /\ tOnWire' = IF tws = "open" THEN tOnWire \cup {r} ELSE tOnWire
    /\ tUnsent' = IF tws = "open" THEN tUnsent ELSE tUnsent \cup {r}
    /\ tPc' = [tPc EXCEPT ![r] = IF waitArg[r] THEN "waiting" ELSE "detached"]
    /\ UNCHANGED <<tws, pending_requests, future, waitArg, tInbox, observed>>

\* the server answers a request it has read (Server._handle_request); ok: the
\* payload validates as a ResponsePayload
TaskServerRespond(r) ==
    /\ part = "task"
    /\ UNCHANGED notTask
    /\ UNCHANGED <<queues, tUnsent>>
    /\ r \in tOnWire
    /\ tws = "open"
    /\ tOnWire' = tOnWire \ {r}
    /\ \E ok \in BOOLEAN : tInbox' = Append(tInbox, <<r, ok>>)
    /\ UNCHANGED <<tws, pending_requests, future, tPc, waitArg, observed>>

\* "not future.done()"
NotDone(f) == f = "pending"

\* a frame <<id, ok>>: the response to request id, or a broadcast (id 0)
IsResponseFrame(m) == m[1] # 0

\* the server broadcasts a message of a type the handler has a queue for
TaskServerBroadcast ==
    /\ part = "task"
    /\ UNCHANGED notTask
    /\ UNCHANGED <<queues, tUnsent>>
    /\ tws = "open"
    /\ queues + Len(SelectSeq(tInbox, LAMBDA m : ~IsResponseFrame(m))) < MaxTaskEvents
    /\ tInbox' = Append(tInbox, <<0, TRUE>>)
    /\ UNCHANGED <<tws, pending_requests, future, tPc, waitArg, tOnWire, observed>>

\* _receiver reads a frame and sort_data handles it
TaskSortData ==
    /\ part = "task"
    /\ UNCHANGED notTask
    /\ UNCHANGED tUnsent
    /\ tInbox # <<>>
    /\ tInbox' = Tail(tInbox)
    /\ IF IsResponseFrame(Head(tInbox))
          THEN /\ pending_requests' = pending_requests \ {Head(tInbox)[1]}
               /\ future' = IF Head(tInbox)[1] \in pending_requests
                                /\ NotDone(future[Head(tInbox)[1]])
                               THEN [future EXCEPT ![Head(tInbox)[1]] =
                                        IF Head(tInbox)[2] THEN "result" ELSE "exception"]
                               ELSE future
               /\ UNCHANGED <<queues, tUnsent>>
          ELSE /\ queues' = queues + 1
               /\ UNCHANGED <<pending_requests, future>>
    /\ UNCHANGED <<tws, tPc, waitArg, tOnWire, observed>>

\* the caller obtains the future's outcome: wait_for returns or raises it
\* (wait=True), or the caller awaits the future it was handed (wait=False)
TaskReturn(r) ==
    /\ part = "task"
    /\ UNCHANGED notTask
    /\ UNCHANGED <<queues, tUnsent>>
    /\ tPc[r] \in {"waiting", "detached"}
    /\ future[r] \in {"result", "exception"}
    /\ observed' = [observed EXCEPT ![r] =
                       Append(@, IF future[r] = "result" THEN "response"
                                 ELSE "error_response")]
    /\ tPc' = [tPc EXCEPT ![r] = "finished"]
    /\ UNCHANGED <<tws, pending_requests, future, waitArg, tOnWire, tInbox>>

\* asyncio.wait_for(future, timeout) expires: the future is cancelled and the
\* caller's task is resumed later with TimeoutError
TaskTimeout(r) ==
    /\ part = "task"
    /\ UNCHANGED notTask
    /\ UNCHANGED <<queues, tUnsent>>
    /\ tPc[r] = "waiting"
    /\ future[r] = "pending"
    /\ future' = [future EXCEPT ![r] = "cancelled"]
    /\ tPc' = [tPc EXCEPT ![r] = "cancelling"]
    /\ UNCHANGED <<tws, pending_requests, waitArg, tOnWire, tInbox, observed>>

\* "except asyncio.TimeoutError": the entry is popped, the exception set on a
\* future that is not done, and TimeoutError raised to the caller
TaskTimeoutHandler(r) ==
    /\ part = "task"
    /\ UNCHANGED notTask
    /\ UNCHANGED <<queues, tUnsent>>
    /\ tPc[r] = "cancelling"
    /\ pending_requests' = pending_requests \ {r}
    /\ future' = IF r \in pending_requests /\ NotDone(future[r])
                    THEN [future EXCEPT ![r] = "exception"]
                    ELSE future
    /\ observed' = [observed EXCEPT ![r] = Append(@, "timeout")]
    /\ tPc' = [tPc EXCEPT ![r] = "finished"]
    /\ UNCHANGED <<tws, waitArg, tOnWire, tInbox>>

NextTask ==
    \/ TaskConnected
    \/ TaskPeerClose
    \/ \E r \in Reqs : TaskSendRequest(r)
    \/ \E r \in Reqs : TaskSendDone(r)
    \/ \E r \in Reqs : TaskServerRespond(r)
    \/ TaskServerBroadcast
    \/ TaskSortData
    \/ \E r \in Reqs : TaskReturn(r)
    \/ \E r \in Reqs : TaskTimeout(r)
    \/ \E r \in Reqs : TaskTimeoutHandler(r)

\* ------------------------------- connection manager of the task client
\* WebSocketClient of noobui client.py: the _connection_manager task and the
\* two tasks it starts.  _monitor_connection leaves its loop only when active
\* or ws is reset, which only the manager's own _cleanup does, or when the
\* manager task is cancelled.
retry_intervals == <<1, 2, 5, 10>>

\* _establish_connection: "await asyncio.sleep(5)" after any other exception
FallbackSleep == 5

InitManager ==
    /\ mPc = "idle"
    /\ retries = <<>>
    /\ active = FALSE
    /\ rcvTask = "none"
    /\ hbTask = "none"
    /\ slept = <<>>
    /\ tAttempts = 0

\* run(): the _connection_manager task is created and enters
\* _establish_connection ("retries = self.retry_intervals.copy()")
ManagerRun ==
    /\ part = "manager"
    /\ UNCHANGED notManager
    /\ mPc = "idle"
    /\ mPc' = "establish"
    /\ retries' = retry_intervals
    /\ UNCHANGED <<tws, active, rcvTask, hbTask, slept, tAttempts>>

LeaveTask(t) == t

\* _cleanup: active reset, the tasks cancelled, the socket closed and forgotten
CancelTask(t) == IF t = "running" THEN "cancelled" ELSE t

\* _establish_connection: "await self._cleanup()", then websockets.connect
ManagerAttempt ==
    /\ part = "manager"
    /\ UNCHANGED notManager
    /\ mPc = "establish"
    /\ tAttempts < MaxTaskAttempts
    /\ tAttempts' = tAttempts + 1
    /\ active' = FALSE
    /\ rcvTask' = CancelTask(rcvTask)
    /\ hbTask' = CancelTask(hbTask)
    /\ tws' = "none"
    /\ mPc' = "connecting"
    /\ UNCHANGED <<retries, slept>>

\* websockets.connect returned: ws and active set, _start_tasks, then
\* _monitor_connection
ManagerConnected ==
    /\ part = "manager"
    /\ UNCHANGED notManager
    /\ mPc = "connecting"
    /\ tws' = "open"
    /\ active' = TRUE
    /\ rcvTask' = "running"
    /\ hbTask' = "running"
    /\ mPc' = "monitor"
    /\ UNCHANGED <<retries, slept, tAttempts>>

CaughtNever(kind) == FALSE

\* _connection_manager: "except (ConnectionClosed, ConnectionError)" and
\* "except Exception"
Caught(kind) == kind \in {"ConnectionError", "Exception"}

\* websockets.connect raised.  A ConnectionError sleeps for the next interval
\* of retries, or is raised again when none is left: the manager handles it
\* (_handle_reconnection, _cleanup) and calls _establish_connection anew.  Any
\* other exception sleeps for 5 seconds.
ManagerConnectFailed(kind) ==
    /\ part = "manager"
    /\ UNCHANGED notManager
    /\ mPc = "connecting"
    /\ IF kind = "ConnectionError"
          THEN IF retries = <<>>
                  THEN /\ mPc' = IF Caught(kind) THEN "establish" ELSE "dead"
                       /\ retries' = retry_intervals
                       /\ UNCHANGED slept
                  ELSE /\ slept' = Append(slept, Head(retries))
                       /\ retries' = Tail(retries)
                       /\ mPc' = "establish"
          ELSE /\ slept' = Append(slept, FallbackSleep)
               /\ mPc' = "establish"
               /\ UNCHANGED retries
    /\ UNCHANGED <<tws, active, rcvTask, hbTask, tAttempts>>

\* _monitor_connection: the manager task is cancelled while it sleeps; the
\* CancelledError is caught, _connection_manager runs its "finally"
\* (_cleanup) and its loop calls _establish_connection anew
ManagerCancelled ==
    /\ part = "manager"
    /\ UNCHANGED notManager
    /\ mPc = "monitor"
    /\ active' = FALSE
    /\ rcvTask' = CancelTask(rcvTask)
    /\ hbTask' = CancelTask(hbTask)
    /\ tws' = "none"
    /\ mPc' = "establish"
    /\ retries' = retry_intervals
    /\ UNCHANGED <<slept, tAttempts>>

\* the peer closes the connection, or the network fails
ManagerPeerClose ==
    /\ part = "manager"
    /\ UNCHANGED notManager
    /\ tws = "open"
    /\ tws' = "closed"
    /\ UNCHANGED managerVars

\* _receiver: the "async for" ends on the closed connection
ReceiverEnds ==
    /\ part = "manager"
    /\ UNCHANGED notManager
    /\ rcvTask = "running"
    /\ tws = "closed"
    /\ rcvTask' = "ended"
    /\ UNCHANGED <<tws, mPc, retries, active, hbTask, slept, tAttempts>>

\* _heartbeat: "while self.active and self.ws and not self.ws.closed" ends
HeartbeatEnds ==
    /\ part = "manager"
    /\ UNCHANGED notManager
    /\ hbTask = "running"
    /\ ~(active /\ tws = "open")
    /\ hbTask' = "ended"
    /\ UNCHANGED <<tws, mPc, retries, active, rcvTask, slept, tAttempts>>

NextManager ==
    \/ ManagerRun
    \/ ManagerAttempt
    \/ ManagerConnected
    \/ \E kind \in {"ConnectionError", "Exception"} : ManagerConnectFailed(kind)
    \/ ManagerCancelled
    \/ ManagerPeerClose
    \/ ReceiverEnds
    \/ HeartbeatEnds

\* ------------------------------------------- the server's dispatcher
\* Server._process_message and what it calls, for the decoded frames of one
\* connection; Server.start handles them one after the other.
Values == {"alpha", "beta"}
Texts == {"boom", ""}

\* a frame that is no request
HeartbeatFrame ==
    [type |-> "heartbeat", shape |-> "ok", method |-> "none", args |-> "match",
     behave |-> "return", value |-> "none"]

\* a request whose payload RequestPayload(**payload) rejects
InvalidRequest ==
    [type |-> "request", shape |-> "invalid", method |-> "none", args |-> "match",
     behave |-> "return", value |-> "none"]

\* a request for a method without a handler
UnknownRequest ==
    [type |-> "request", shape |-> "ok", method |-> "unknown", args |-> "match",
     behave |-> "return", value |-> "none"]

\* a request for a registered method: the handler is a function or a coroutine
\* function; params fit its parameters or not; called with fitting params it
\* returns a value, raises an exception with a text, or raises a pydantic
\* ValidationError
KnownRequests ==
    {[type |-> "request", shape |-> "ok", method |-> m, args |-> "mismatch",
      behave |-> "return", value |-> "none"] : m \in {"sync", "coro"}}
    \cup {[type |-> "request", shape |-> "ok", method |-> m, args |-> "match",
           behave |-> "return", value |-> v] : m \in {"sync", "coro"}, v \in Values}
    \cup {[type |-> "request", shape |-> "ok", method |-> m, args |-> "match",
           behave |-> "raise", value |-> t] : m \in {"sync", "coro"}, t \in Texts}
    \cup {[type |-> "request", shape |-> "ok", method |-> m, args |-> "match",
           behave |-> "raise_validation", value |-> "none"] : m \in {"sync", "coro"}}

DecodedFrames == {HeartbeatFrame, InvalidRequest, UnknownRequest} \cup KnownRequests

\* a text ProtocolMessage.decode yields no header for (it returns none, or raises)
MalformedFrame ==
    [type |-> "malformed", shape |-> "invalid", method |-> "none", args |-> "match",
     behave |-> "return", value |-> "none"]

\* the texts one connection can send
ReceivedFrames == DecodedFrames \cup {MalformedFrame}

IdleDispatch ==
    /\ dFrames = <<>>
    /\ dNext = 0
    /\ dOpen = TRUE
    /\ dSent = <<>>
    /\ dInvoked = {}
    /\ dActive = {}
    /\ dOrder = <<>>

InitDispatch ==
    /\ dFrames \in UNION {[1..n -> ReceivedFrames] : n \in 1..MaxDispatch}
    /\ dNext = 0
    /\ dOpen = TRUE
    /\ dSent = <<>>
    /\ dInvoked = {}
    /\ dActive = {}
    /\ dOrder = <<>>

\* what "handler(**request.params)" or "await handler(**request.params)" does:
\* params that do not fit make the call itself raise TypeError, before the body
Call(f) ==
    IF f.args = "mismatch" THEN [kind |-> "TypeError", value |-> "missing argument"]
    ELSE IF f.behave = "return" THEN [kind |-> "return", value |-> f.value]
    ELSE IF f.behave = "raise" THEN [kind |-> "Exception", value |-> f.value]
    ELSE [kind |-> "ValidationError", value |-> "none"]

\* "if asyncio.iscoroutinefunction(handler): result = await handler(...);
\* else: result = handler(...)"
HandlerOutcome(f) == IF f.method = "coro" THEN Call(f) ELSE Call(f)

ExceptionCodeBadRequest(kind) == 400

\* the except clauses of _handle_request
ExceptionCode(kind) == IF kind = "ValidationError" THEN 400 ELSE 500

\* the ResponsePayload _handle_request builds
ResponseFor(f) ==
    IF f.shape = "invalid"
       THEN [code |-> ExceptionCode("ValidationError"), data |-> "none",
             error |-> "Invalid request format"]
    ELSE IF f.method = "unknown"
       THEN [code |-> 404, data |-> "none", error |-> "Method not found"]
    ELSE IF HandlerOutcome(f).kind = "return"
       THEN [code |-> 200, data |-> HandlerOutcome(f).value, error |-> "none"]
    ELSE IF HandlerOutcome(f).kind = "ValidationError"
       THEN [code |-> ExceptionCode("ValidationError"), data |-> "none",
             error |-> "Invalid request format"]
    ELSE [code |-> ExceptionCode(HandlerOutcome(f).kind), data |-> "none",
          error |-> HandlerOutcome(f).value]

NoCorrelation(i) == 0

\* "correlation_id=header.msg_id"; frame i has msg_id i
CorrelationOf(i) == i

\* the frame _send_response sends for request i
ResponseFrame(i) ==
    [type |-> "response", correlation_id |-> CorrelationOf(i),
     payload |-> ResponseFor(dFrames[i])]

\* the frame _send_heartbeat sends
HeartbeatReply ==
    [type |-> "heartbeat", correlation_id |-> 0,
     payload |-> [code |-> 0, data |-> "alive", error |-> "none"]]

\* ws.send_text: on a closed connection it raises, which _send_response and
\* _send_heartbeat log and drop
SendText(log, frame) == IF dOpen THEN Append(log, frame) ELSE log

LoopNeverWaits == TRUE

\* Server.start: "await self._process_message(websocket, msg)": the loop takes
\* the next frame only when the call for the one before has returned
LoopFree == dActive = {}

\* Server.start: the receive loop splits the next frame off and calls
\* _process_message for it
TakeFrame ==
    /\ part = "dispatch"
    /\ UNCHANGED notDispatch
    /\ dNext + Cardinality(dActive) < Len(dFrames)
    /\ LoopFree
    /\ dActive' = dActive \cup {dNext + Cardinality(dActive) + 1}
    /\ UNCHANGED <<dFrames, dNext, dOpen, dSent, dInvoked, dOrder>>

\* _process_message for a request: _handle_request and _send_response
ProcessRequest ==
    /\ part = "dispatch"
    /\ UNCHANGED notDispatch
    /\ \E j \in dActive :
          /\ dFrames[j].type = "request"
          /\ dActive' = dActive \ {j}
          /\ dOrder' = Append(dOrder, j)
          /\ dInvoked' = IF /\ dFrames[j].shape = "ok"
                            /\ dFrames[j].method # "unknown"
                            /\ dFrames[j].args = "match"
                            THEN dInvoked \cup {j}
                            ELSE dInvoked
          /\ dSent' = SendText(dSent, ResponseFrame(j))
    /\ dNext' = dNext + 1
    /\ UNCHANGED <<dFrames, dOpen>>

\* _process_message for a heartbeat: _send_heartbeat
ProcessHeartbeat ==
    /\ part = "dispatch"
    /\ UNCHANGED notDispatch
    /\ \E j \in dActive :
          /\ dFrames[j].type = "heartbeat"
          /\ dActive' = dActive \ {j}
          /\ dOrder' = Append(dOrder, j)
    /\ dNext' = dNext + 1
    /\ dSent' = SendText(dSent, HeartbeatReply)
    /\ UNCHANGED <<dFrames, dOpen, dInvoked>>

\* the frame _send_error sends: a response whose header has no correlation_id
ErrorFrame(text) ==
    [type |-> "response", correlation_id |-> 0,
     payload |-> [code |-> 500, data |-> "none", error |-> text]]

\* _process_message for a text that does not decode: _send_error, with
\* "Invalid message header" when decode returned no header and "Internal
\* server error" when it raised
ProcessMalformed ==
    /\ part = "dispatch"
    /\ UNCHANGED notDispatch
    /\ \E j \in dActive :
          /\ dFrames[j].type = "malformed"
          /\ dActive' = dActive \ {j}
          /\ dOrder' = Append(dOrder, j)
    /\ dNext' = dNext + 1
    /\ \E text \in {"Invalid message header", "Internal server error"} :
          dSent' = SendText(dSent, ErrorFrame(text))
    /\ UNCHANGED <<dFrames, dOpen, dInvoked>>

\* the peer closes the connection, or the network fails
DispatchPeerClose ==
    /\ part = "dispatch"
    /\ UNCHANGED notDispatch
    /\ dOpen
    /\ dOpen' = FALSE
    /\ UNCHANGED <<dFrames, dNext, dSent, dInvoked, dActive, dOrder>>

NextDispatch ==
    \/ TakeFrame
    \/ ProcessRequest
    \/ ProcessHeartbeat
    \/ ProcessMalformed
    \/ DispatchPeerClose

\* ------------------------------ message routing of the threaded client
\* MessageHandler.sort_data, subscribe and unsubscribe of lazytea client.py, on
\* a handler whose pending table holds any of the requests.
Subs == 1..MaxSubs

\* the broadcast tags; a response without correlation_id is routed by its type
\* as well
Tags == {"message", "response"}

\* the messages handed to sort_data: broadcasts, and responses with a
\* correlation_id (cid, a request id) or without one (cid 0)
SortedMessages ==
    {[type |-> t, cid |-> 0] : t \in Tags}
    \cup {[type |-> "response", cid |-> r] : r \in Reqs}

\* no unsubscribe call
NoCall == [sig |-> 0, types |-> {}]

\* the signals subscribed to type t: "self.signal_dict.get(t, [])"
SignalsOf(dict, t) == IF t \in DOMAIN dict THEN dict[t] ELSE <<>>

\* a defaultdict(list) after "dict[t] = list"
WithKey(dict, t, list) ==
    [k \in DOMAIN dict \cup {t} |-> IF k = t THEN list ELSE dict[k]]

\* "del dict[k]" for every k of keys
WithoutKeys(dict, keys) == [k \in DOMAIN dict \ keys |-> dict[k]]

IdleFanout ==
    /\ signal_dict = <<>>
    /\ sigState = [x \in Subs |-> "live"]
    /\ fQueue = <<>>
    /\ delivered = [x \in Subs |-> <<>>]
    /\ fRaised = 0
    /\ fDiscarded = 0
    /\ fMissed = {}
    /\ fUnsub = NoCall
    /\ fSubscribed = 0

\* the handler on which sort_data runs: connected, any of the requests sent and
\* pending with their timers running
FanoutThread ==
    /\ wsPc = "recv"
    /\ wStop = FALSE
    /\ hbPc = "run"
    /\ hStop = FALSE
    /\ ws = TRUE
    /\ sock = "open"
    /\ connected = TRUE
    /\ workersStarted = TRUE
    /\ sigQueue = <<>>
    /\ startedFlag = TRUE
    /\ pending \in {{1}, Reqs}
    /\ issued = pending
    /\ hasSucc = TRUE
    /\ hasErr = TRUE
    /\ timerSt = [r \in Reqs |-> IF r \in pending THEN "running" ELSE "none"]
    /\ inbox = <<>>
    /\ onWire = pending
    /\ sentOk = pending
    /\ outcomes = [r \in Reqs |-> <<>>]
    /\ attempts = 1
    /\ fakes = 0
    /\ stopCalled = FALSE
    /\ stopCleared = {}
    /\ notified = <<>>
    /\ runStarts = 1
    /\ lost = FALSE
    /\ lostPending = {}

InitFanout ==
    /\ signal_dict = <<>>
    /\ sigState = [x \in Subs |-> "live"]
    /\ fQueue \in UNION {[1..n -> SortedMessages] : n \in 1..MaxSorted}
    /\ delivered = [x \in Subs |-> <<>>]
    /\ fRaised = 0
    /\ fDiscarded = 0
    /\ fMissed = {}
    /\ fUnsub = NoCall
    /\ fSubscribed = 0

\* subscribe(t, signal=x)
Subscribe(x, t) ==
    /\ part = "fanout"
    /\ UNCHANGED notFanout
    /\ UNCHANGED fMissed
    /\ fUnsub' = NoCall
    /\ fSubscribed < MaxSubscribe
    /\ fSubscribed' = fSubscribed + 1
    /\ signal_dict' = WithKey(signal_dict, t, Append(SignalsOf(signal_dict, t), x))
    /\ UNCHANGED <<sigState, fQueue, delivered, fRaised, fDiscarded, tableVars>>

\* list.remove: the first occurrence
RECURSIVE RemoveFirst(_, _)
RemoveFirst(seq, x) ==
    IF seq = <<>> THEN <<>>
    ELSE IF Head(seq) = x THEN Tail(seq)
    ELSE <<Head(seq)>> \o RemoveFirst(Tail(seq), x)

RemoveOnce(seq, x) == RemoveFirst(seq, x)

\* "while signal in self.signal_dict[type_]: ...remove(signal)"
RemoveAll(seq, x) == SelectSeq(seq, LAMBDA y : y # x)

\* unsubscribe, the loop over the keys it visits: every occurrence of x is
\* removed from the list of a visited key, and a key whose list is then empty
\* is deleted
Unsubscribed(dict, x, visited) ==
    WithoutKeys([k \in DOMAIN dict |-> IF k \in visited THEN RemoveAll(dict[k], x)
                                       ELSE dict[k]],
                {k \in DOMAIN dict \cap visited : RemoveAll(dict[k], x) = <<>>})

\* unsubscribe(x, *ts): "if type_ in self.signal_dict" for every type given
Unsubscribe(x, ts) ==
    /\ part = "fanout"
    /\ UNCHANGED notFanout
    /\ UNCHANGED fMissed
    /\ fUnsub' = [sig |-> x, types |-> ts]
    /\ signal_dict' = Unsubscribed(signal_dict, x, ts)
    /\ UNCHANGED <<sigState, fQueue, delivered, fRaised, fDiscarded, fSubscribed,
                   tableVars>>

\* unsubscribe(x): "for type_key in list(self.signal_dict.keys())"
UnsubscribeAll(x) ==
    /\ part = "fanout"
    /\ UNCHANGED notFanout
    /\ UNCHANGED fMissed
    /\ fUnsub' = [sig |-> x, types |-> {}]
    /\ signal_dict' = Unsubscribed(signal_dict, x, DOMAIN signal_dict)
    /\ UNCHANGED <<sigState, fQueue, delivered, fRaised, fDiscarded, fSubscribed,
                   tableVars>>

\* the object behind a subscribed signal is deleted, or its emit starts to
\* fail otherwise (for instance a signal of another signature: TypeError)
SignalBreaks(x, how) ==
    /\ part = "fanout"
    /\ UNCHANGED notFanout
    /\ UNCHANGED fMissed
    /\ fUnsub' = NoCall
    /\ sigState[x] = "live"
    /\ sigState' = [sigState EXCEPT ![x] = how]
    /\ UNCHANGED <<signal_dict, fQueue, delivered, fRaised, fDiscarded, fSubscribed,
                   tableVars>>

\* the loop "for signal in signals_to_emit" of sort_data over the signals todo:
\* emit; a RuntimeError naming a deleted object removes the signal from the
\* list of the type (the defaultdict makes the key if it is gone); any other
\* exception leaves the loop and sort_data
RECURSIVE EmitAll(_, _, _, _)
EmitAll(todo, t, dict, log) ==
    IF todo = <<>> THEN [dict |-> dict, log |-> log, raised |-> FALSE]
    ELSE IF sigState[Head(todo)] = "live"
       THEN EmitAll(Tail(todo), t, dict, [log EXCEPT ![Head(todo)] = Append(@, t)])
    ELSE IF sigState[Head(todo)] = "deleted"
       THEN EmitAll(Tail(todo), t,
                    WithKey(dict, t, RemoveFirst(SignalsOf(dict, t), Head(todo))), log)
    ELSE [dict |-> dict, log |-> log, raised |-> TRUE]

TableByTypeOnly(m) == m.type = "response"

RoutedByTypeOnly(m) == FALSE

\* sort_data: "if header.msg_type == "response" and header.correlation_id"
IsCorrelated(m) == m.type = "response" /\ m.cid # 0

\* sort_data on a response with a correlation_id: _handle_response
SortResponse ==
    /\ part = "fanout"
    /\ UNCHANGED notFanout
    /\ UNCHANGED fMissed
    /\ fUnsub' = NoCall
    /\ fQueue # <<>>
    /\ IsCorrelated(Head(fQueue))
    /\ fQueue' = Tail(fQueue)
    /\ HandleResponse(Head(fQueue).cid, FALSE)
    /\ fDiscarded' = IF Head(fQueue).cid \in pending THEN fDiscarded ELSE fDiscarded + 1
    /\ UNCHANGED <<signal_dict, sigState, delivered, fRaised, fSubscribed>>

\* what sort_data does with a message that goes to the subscribed signals
Emission ==
    EmitAll(SignalsOf(signal_dict, Head(fQueue).type), Head(fQueue).type,
            signal_dict, delivered)

\* sort_data on any other message: the signals subscribed to its type
SortBroadcast ==
    /\ part = "fanout"
    /\ UNCHANGED notFanout
    /\ fUnsub' = NoCall
    /\ fQueue # <<>>
    /\ ~IsCorrelated(Head(fQueue))
    /\ fQueue' = Tail(fQueue)
    /\ signal_dict' = Emission.dict
    /\ delivered' = Emission.log
    /\ fRaised' = IF Emission.raised THEN fRaised + 1 ELSE fRaised
    /\ fMissed' = fMissed \cup
          {x \in Subs : /\ sigState[x] = "live"
                        /\ \E i \in 1..Len(SignalsOf(signal_dict, Head(fQueue).type)) :
                              SignalsOf(signal_dict, Head(fQueue).type)[i] = x
                        /\ delivered'[x] = delivered[x]}
    /\ UNCHANGED <<sigState, fDiscarded, fSubscribed, tableVars>>

NextFanout ==
    \/ \E x \in Subs, t \in Tags : Subscribe(x, t)
    \/ \E x \in Subs, ts \in SUBSET Tags \ {{}} : Unsubscribe(x, ts)
    \/ \E x \in Subs : UnsubscribeAll(x)
    \/ \E x \in Subs, how \in {"deleted", "failing"} : SignalBreaks(x, how)
    \/ SortResponse
    \/ SortBroadcast

\* ------------------------------------------------ client.lock of the threaded client
\* The threads that take client.lock: the pool thread of WebSocketWorker.run,
\* a caller of send_raw_message (send_request or the heartbeat), a caller of
\* stop(), and the thread that owns WebSocketClient, on which the slot
\* _on_connection_state runs.
LThreads == {"worker", "sender", "stopper"}

InitLock ==
    /\ lockOwner = "none"
    /\ lPc = [t \in LThreads |-> IF t = "worker" THEN "top" ELSE "idle"]
    /\ lIo = [t \in LThreads |-> "none"]
    /\ lWs = FALSE
    /\ lConn = FALSE
    /\ lStop = FALSE
    /\ lSig = <<>>
    /\ lSends = 0

IdleLock == InitLock

\* WebSocketWorker.run: "while not self.stop_event.is_set()": the worker ends,
\* or calls connect(uri)
LWorkerLoopTop ==
    /\ part = "lock"
    /\ UNCHANGED notLock
    /\ lPc["worker"] = "top"
    /\ IF lStop
          THEN lPc' = [lPc EXCEPT !["worker"] = "exited"] /\ UNCHANGED lIo
          ELSE /\ lPc' = [lPc EXCEPT !["worker"] = "connect"]
               /\ lIo' = [lIo EXCEPT !["worker"] = "connect"]
    /\ UNCHANGED <<lockOwner, lWs, lConn, lStop, lSig, lSends>>

\* connect returned: "with self.client.lock: self.client.ws = websocket", then
\* connection_state.emit(True) and the first recv(timeout=1)
LWorkerConnected ==
    /\ part = "lock"
    /\ UNCHANGED notLock
    /\ lPc["worker"] = "connect"
    /\ lockOwner = "none"
    /\ Len(lSig) < MaxQueued
    /\ lWs' = TRUE
    /\ lSig' = Append(lSig, TRUE)
    /\ lPc' = [lPc EXCEPT !["worker"] = "recv"]
    /\ lIo' = [lIo EXCEPT !["worker"] = "recv"]
    /\ UNCHANGED <<lockOwner, lConn, lStop, lSends>>

\* connect raised: error.emit, stop_event.wait(5), then the finally clause
LWorkerConnectFailed ==
    /\ part = "lock"
    /\ UNCHANGED notLock
    /\ lPc["worker"] = "connect"
    /\ lPc' = [lPc EXCEPT !["worker"] = "finally"]
    /\ lIo' = [lIo EXCEPT !["worker"] = "none"]
    /\ UNCHANGED <<lockOwner, lWs, lConn, lStop, lSig, lSends>>

\* the inner loop ends: recv raised (stop_event.set(); break), or a recv timed
\* out and the loop saw stop_event set
LWorkerRecvEnds ==
    /\ part = "lock"
    /\ UNCHANGED notLock
    /\ lPc["worker"] = "recv"
    /\ \E raised \in BOOLEAN :
          /\ raised \/ lStop
          /\ lStop' = (lStop \/ raised)
    /\ lPc' = [lPc EXCEPT !["worker"] = "finally"]
    /\ lIo' = [lIo EXCEPT !["worker"] = "none"]
    /\ UNCHANGED <<lockOwner, lWs, lConn, lSig, lSends>>

\* the finally clause: "with self.client.lock: if self.client.ws:
\* self.client.ws.close()"; without a socket the block is left at once
LWorkerFinally ==
    /\ part = "lock"
    /\ UNCHANGED notLock
    /\ lPc["worker"] = "finally"
    /\ lockOwner = "none"
    /\ Len(lSig) < MaxQueued
    /\ IF lWs
          THEN /\ lockOwner' = "worker"
               /\ lPc' = [lPc EXCEPT !["worker"] = "closing"]
               /\ lIo' = [lIo EXCEPT !["worker"] = "close"]
               /\ UNCHANGED lSig
          ELSE /\ lPc' = [lPc EXCEPT !["worker"] = "top"]
               /\ lSig' = Append(lSig, FALSE)
               /\ UNCHANGED <<lockOwner, lIo>>
    /\ UNCHANGED <<lWs, lConn, lStop, lSends>>

\* close() returned: "self.client.ws = None", the lock is released, then
\* connection_state.emit(False)
LWorkerClosed ==
    /\ part = "lock"
    /\ UNCHANGED notLock
    /\ lPc["worker"] = "closing"
    /\ Len(lSig) < MaxQueued
    /\ lWs' = FALSE
    /\ lockOwner' = "none"
    /\ lSig' = Append(lSig, FALSE)
    /\ lPc' = [lPc EXCEPT !["worker"] = "top"]
    /\ lIo' = [lIo EXCEPT !["worker"] = "none"]
    /\ UNCHANGED <<lConn, lStop, lSends>>

\* WebSocketClient._on_connection_state: "with self.lock: self._connected = state"
LOnConnectionState ==
    /\ part = "lock"
    /\ UNCHANGED notLock
    /\ lSig # <<>>
    /\ lockOwner = "none"
    /\ lConn' = Head(lSig)
    /\ lSig' = Tail(lSig)
    /\ UNCHANGED <<lockOwner, lPc, lIo, lWs, lStop, lSends>>

\* send_raw_message: "with self.lock:"; not connected: return False; otherwise
\* "self.ws.send(message)" inside the block
LSendEnter ==
    /\ part = "lock"
    /\ UNCHANGED notLock
    /\ lPc["sender"] = "idle"
    /\ lSends < MaxSends
    /\ lockOwner = "none"
    /\ lSends' = lSends + 1
    /\ IF lConn /\ lWs
          THEN /\ lockOwner' = "sender"
               /\ lPc' = [lPc EXCEPT !["sender"] = "sending"]
               /\ lIo' = [lIo EXCEPT !["sender"] = "send"]
          ELSE UNCHANGED <<lockOwner, lPc, lIo>>
    /\ UNCHANGED <<lWs, lConn, lStop, lSig>>

\* send returned, or raised ConnectionClosed ("self._connected = False"); the
\* block is left
LSendDone ==
    /\ part = "lock"
    /\ UNCHANGED notLock
    /\ lPc["sender"] = "sending"
    /\ \E closed \in BOOLEAN : lConn' = (lConn /\ ~closed)
    /\ lockOwner' = "none"
    /\ lPc' = [lPc EXCEPT !["sender"] = "idle"]
    /\ lIo' = [lIo EXCEPT !["sender"] = "none"]
    /\ UNCHANGED <<lWs, lStop, lSig, lSends>>

\* stop(): both stop events are set before the lock is asked for
LStopEnter ==
    /\ part = "lock"
    /\ UNCHANGED notLock
    /\ lPc["stopper"] = "idle"
    /\ lStop' = TRUE
    /\ lPc' = [lPc EXCEPT !["stopper"] = "lock"]
    /\ UNCHANGED <<lockOwner, lIo, lWs, lConn, lSig, lSends>>

\* stop(): "with self.lock: if self.ws: self.ws.close()"
LStopLock ==
    /\ part = "lock"
    /\ UNCHANGED notLock
    /\ lPc["stopper"] = "lock"
    /\ lockOwner = "none"
    /\ IF lWs
          THEN /\ lockOwner' = "stopper"
               /\ lPc' = [lPc EXCEPT !["stopper"] = "closing"]
               /\ lIo' = [lIo EXCEPT !["stopper"] = "close"]
               /\ UNCHANGED lConn
          ELSE /\ lConn' = FALSE
               /\ lPc' = [lPc EXCEPT !["stopper"] = "done"]
               /\ UNCHANGED <<lockOwner, lIo>>
    /\ UNCHANGED <<lWs, lStop, lSig, lSends>>

\* stop(): close() returned; "self._connected = False" and the block is left
LStopClosed ==
    /\ part = "lock"
    /\ UNCHANGED notLock
    /\ lPc["stopper"] = "closing"
    /\ lConn' = FALSE
    /\ lockOwner' = "none"
    /\ lPc' = [lPc EXCEPT !["stopper"] = "done"]
    /\ lIo' = [lIo EXCEPT !["stopper"] = "none"]
    /\ UNCHANGED <<lWs, lStop, lSig, lSends>>

NextLock ==
    \/ LWorkerLoopTop
    \/ LWorkerConnected
    \/ LWorkerConnectFailed
    \/ LWorkerRecvEnds
    \/ LWorkerFinally
    \/ LWorkerClosed
    \/ LOnConnectionState
    \/ LSendEnter
    \/ LSendDone
    \/ LStopEnter
    \/ LStopLock
    \/ LStopClosed

\* ------------------------------------------------ type queues of the task client
\* MessageHandler.queues of noobui client.py: sort_data puts every message that
\* is no response into the queue of its type, get_message(*types) takes from
\* the queues of the types asked for.
GTypes == {"message", "call_api"}

\* the arguments of get_message: one type, or both in either order
GTypeLists == {<<"message">>, <<"call_api">>, <<"message", "call_api">>,
               <<"call_api", "message">>}

InitGet ==
    /\ typeQueues = [t \in GTypes |-> <<>>]
    /\ gPut = 0
    /\ gTaken = {}
    /\ gReturned = <<>>

IdleGet == InitGet

\* sort_data, else branch: "queue = self.queues.get(header.msg_type); if queue:
\* await queue.put((header, payload))"
GSortData(t) ==
    /\ part = "get"
    /\ UNCHANGED notGet
    /\ gPut < MaxPut
    /\ gPut' = gPut + 1
    /\ typeQueues' = [typeQueues EXCEPT ![t] = Append(@, [type |-> t, n |-> gPut + 1])]
    /\ UNCHANGED <<gTaken, gReturned>>

\* the get() tasks that asyncio.wait reports done: every task whose queue holds
\* a message has taken it by the time wait returns
DoneTasks(types) == {i \in 1..Len(types) : typeQueues[types[i]] # <<>>}

FirstDone(types) ==
    CHOOSE i \in DoneTasks(types) : \A j \in DoneTasks(types) : i <= j

\* "result_task = done.pop()": any task of the set
PoppedTasks(types) == DoneTasks(types)

\* get_message(*types) with a message waiting in at least one of the queues:
\* tasks = [create_task(self.queues[t].get()) for t in types]; wait(...,
\* FIRST_COMPLETED); result = done.pop().result(); the type returned is that of
\* the first task of the list that is done
GetMessage(types) ==
    /\ part = "get"
    /\ UNCHANGED notGet
    /\ DoneTasks(types) # {}
    /\ typeQueues' = [t \in GTypes |->
                         IF \E i \in DoneTasks(types) : types[i] = t
                            THEN Tail(typeQueues[t])
                            ELSE typeQueues[t]]
    /\ gTaken' = gTaken \cup {Head(typeQueues[types[i]]) : i \in DoneTasks(types)}
    /\ \E r \in PoppedTasks(types) :
          gReturned' = Append(gReturned,
                              <<types[FirstDone(types)], Head(typeQueues[types[r]])>>)
    /\ UNCHANGED gPut

NextGet ==
    \/ \E t \in GTypes : GSortData(t)
    \/ \E types \in GTypeLists : GetMessage(types)

\* ------------------------------------------- send_request against stop()
\* MessageHandler.send_request of the threaded client, statement by statement,
\* with stop() called from another thread.  _requests_mutex makes each block
\* that holds it one step; it is released between the registration and the
\* send.  The timers belong to the thread that calls send_request, so
\* _handle_timeout runs only while that thread is not inside send_request.
InitSendreq ==
    /\ qPc = "idle"
    /\ qCur = 0
    /\ qPending = {}
    /\ qTimer = [r \in Reqs |-> "none"]
    /\ qNotes = [r \in Reqs |-> <<>>]
    /\ qConn \in BOOLEAN
    /\ qStopPc = "idle"
    /\ qFailed = {}
    /\ qErr \in BOOLEAN

IdleSendreq == InitSendreq /\ qConn /\ qErr

\* send_request: "with QMutexLocker(self._requests_mutex):
\* self._pending_requests[msg_id] = {...}"
QRegister(r) ==
    /\ part = "sendreq"
    /\ UNCHANGED notSendreq
    /\ qPc = "idle"
    /\ qTimer[r] = "none"
    /\ r \notin qFailed
    /\ \A q \in Reqs : q < r => qTimer[q] # "none" \/ q \in qFailed
    /\ qCur' = r
    /\ qPending' = qPending \cup {r}
    /\ qPc' = "registered"
    /\ UNCHANGED <<qTimer, qNotes, qConn, qStopPc, qFailed, qErr>>

\* send_request: "timer.start(int(timeout * 1000))"
QTimerStart ==
    /\ part = "sendreq"
    /\ UNCHANGED notSendreq
    /\ qPc = "registered"
    /\ qTimer' = [qTimer EXCEPT ![qCur] = "running"]
    /\ qPc' = "started"
    /\ UNCHANGED <<qCur, qPending, qNotes, qConn, qStopPc, qFailed, qErr>>

\* send_request: "if not self.client.send_raw_message(message)": the frame is
\* sent and send_request returns, or the send reports failure (not connected,
\* or ConnectionClosed, which resets _connected)
QSend ==
    /\ part = "sendreq"
    /\ UNCHANGED notSendreq
    /\ qPc = "started"
    /\ \E ok \in BOOLEAN :
          /\ ok => qConn
          /\ qConn' = (qConn /\ ok)
          /\ qPc' = IF ok THEN "idle" ELSE "failed"
          /\ qFailed' = IF ok THEN qFailed ELSE qFailed \cup {qCur}
    /\ UNCHANGED <<qCur, qPending, qTimer, qNotes, qStopPc, qErr>>

\* _cleanup_request: "if msg_id in self._pending_requests": pop, timer.stop();
\* an entry that is gone leaves its timer as it is
CleanedTimer(r) ==
    IF r \in qPending THEN [qTimer EXCEPT ![r] = StopTimer(@)] ELSE qTimer

\* send_request: "self._cleanup_request(msg_id)"
QCleanup ==
    /\ part = "sendreq"
    /\ UNCHANGED notSendreq
    /\ qPc = "failed"
    /\ qTimer' = CleanedTimer(qCur)
    /\ qPending' = qPending \ {qCur}
    /\ qPc' = "cleaned"
    /\ UNCHANGED <<qCur, qNotes, qConn, qStopPc, qFailed, qErr>>

\* send_request: "if error_signal: error_signal.emit("Failed to send request:
\* Not connected")"
QEmitFailure ==
    /\ part = "sendreq"
    /\ UNCHANGED notSendreq
    /\ qPc = "cleaned"
    /\ qNotes' = IF qErr THEN [qNotes EXCEPT ![qCur] = Append(@, "sendfail")] ELSE qNotes
    /\ qPc' = "idle"
    /\ UNCHANGED <<qCur, qPending, qTimer, qConn, qStopPc, qFailed, qErr>>

\* _handle_timeout, on the thread of the timers
QTimeout(r) ==
    /\ part = "sendreq"
    /\ UNCHANGED notSendreq
    /\ qPc = "idle"
    /\ qTimer[r] = "running"
    /\ qTimer' = [qTimer EXCEPT ![r] = "fired"]
    /\ qPending' = qPending \ {r}
    /\ qNotes' = IF r \in qPending /\ qErr
                    THEN [qNotes EXCEPT ![r] = Append(@, "timeout")]
                    ELSE qNotes
    /\ UNCHANGED <<qPc, qCur, qConn, qStopPc, qFailed, qErr>>

\* MessageHandler.stop on another thread: stopping.emit(), self.client.stop()
QStopClient ==
    /\ part = "sendreq"
    /\ UNCHANGED notSendreq
    /\ qStopPc = "idle"
    /\ qConn' = FALSE
    /\ qStopPc' = "client_stopped"
    /\ UNCHANGED <<qPc, qCur, qPending, qTimer, qNotes, qFailed, qErr>>

\* MessageHandler.stop: "with QMutexLocker(self._requests_mutex):" every entry's
\* timer is stopped and its error_signal emitted, then the table is cleared
QStopClear ==
    /\ part = "sendreq"
    /\ UNCHANGED notSendreq
    /\ qStopPc = "client_stopped"
    /\ qTimer' = [r \in Reqs |-> IF r \in qPending THEN StopTimer(qTimer[r]) ELSE qTimer[r]]
    /\ qNotes' = [r \in Reqs |-> IF r \in qPending /\ qErr
                                    THEN Append(qNotes[r], "shutdown")
                                    ELSE qNotes[r]]
    /\ qPending' = {}
    /\ qStopPc' = "done"
    /\ UNCHANGED <<qPc, qCur, qConn, qFailed, qErr>>

\* the peer closes the connection: the worker's connection_state(False)
QPeerClose ==
    /\ part = "sendreq"
    /\ UNCHANGED notSendreq
    /\ qConn
    /\ qConn' = FALSE
    /\ UNCHANGED <<qPc, qCur, qPending, qTimer, qNotes, qStopPc, qFailed, qErr>>

NextSendreq ==
    \/ \E r \in Reqs : QRegister(r)
    \/ QTimerStart
    \/ QSend
    \/ QCleanup
    \/ QEmitFailure
    \/ \E r \in Reqs : QTimeout(r)
    \/ QStopClient
    \/ QStopClear
    \/ QPeerClose

\* ------------------------------------------- the started signal of a session
\* MessageHandler._handle_connection_change of the threaded client, called with
\* any sequence of connection states.
InitSession ==
    /\ sStarted = FALSE
    /\ sNotes = <<>>
    /\ sEmitted = <<>>

IdleSession == InitSession

EmitsOnEveryConnect(flag, is_connected) == is_connected

\* "if is_connected and not self._started_emitted_this_session: self.started.emit()"
EmitsStarted(flag, is_connected) == is_connected /\ ~flag

\* _started_emitted_this_session after the call: set with the emission, reset
\* by "elif not is_connected", otherwise left
SessionFlag(flag, is_connected) ==
    IF EmitsStarted(flag, is_connected) THEN TRUE
    ELSE IF ~is_connected THEN FALSE
    ELSE flag

\* _handle_connection_change(is_connected)
HandleConnectionChange(is_connected) ==
    /\ part = "session"
    /\ UNCHANGED notSession
    /\ Len(sNotes) < MaxNotes
    /\ sNotes' = Append(sNotes, is_connected)
    /\ sEmitted' = Append(sEmitted, EmitsStarted(sStarted, is_connected))
    /\ sStarted' = SessionFlag(sStarted, is_connected)

NextSession ==
    \/ HandleConnectionChange(TRUE)
    \/ HandleConnectionChange(FALSE)

Init ==
    \/ /\ part = "server"
       /\ InitServer /\ IdleFraming /\ IdleThread /\ InitTask /\ InitManager /\ IdleDispatch
       /\ IdleFanout /\ IdleLock /\ IdleGet /\ IdleSendreq /\ IdleSession
    \/ /\ part = "framing"
       /\ InitServer /\ InitFraming /\ IdleThread /\ InitTask /\ InitManager /\ IdleDispatch
       /\ IdleFanout /\ IdleLock /\ IdleGet /\ IdleSendreq /\ IdleSession
    \/ /\ part = "thread"
       /\ InitServer /\ IdleFraming /\ InitThread /\ InitTask /\ InitManager /\ IdleDispatch
       /\ IdleFanout /\ IdleLock /\ IdleGet /\ IdleSendreq /\ IdleSession
    \/ /\ part = "task"
       /\ InitServer /\ IdleFraming /\ IdleThread /\ InitTask /\ InitManager /\ IdleDispatch
       /\ IdleFanout /\ IdleLock /\ IdleGet /\ IdleSendreq /\ IdleSession
    \/ /\ part = "manager"
       /\ InitServer /\ IdleFraming /\ IdleThread /\ InitTask /\ InitManager /\ IdleDispatch
       /\ IdleFanout /\ IdleLock /\ IdleGet /\ IdleSendreq /\ IdleSession
    \/ /\ part = "dispatch"
       /\ InitServer /\ IdleFraming /\ IdleThread /\ InitTask /\ InitManager /\ InitDispatch
       /\ IdleFanout /\ IdleLock /\ IdleGet /\ IdleSendreq /\ IdleSession
    \/ /\ part = "fanout"
       /\ InitServer /\ IdleFraming /\ FanoutThread /\ InitTask /\ InitManager /\ IdleDispatch
       /\ InitFanout /\ IdleLock /\ IdleGet /\ IdleSendreq /\ IdleSession
    \/ /\ part = "lock"
       /\ InitServer /\ IdleFraming /\ IdleThread /\ InitTask /\ InitManager /\ IdleDispatch
       /\ IdleFanout /\ InitLock /\ IdleGet /\ IdleSendreq /\ IdleSession
    \/ /\ part = "get"
       /\ InitServer /\ IdleFraming /\ IdleThread /\ InitTask /\ InitManager /\ IdleDispatch
       /\ IdleFanout /\ IdleLock /\ InitGet /\ IdleSendreq /\ IdleSession
    \/ /\ part = "sendreq"
       /\ InitServer /\ IdleFraming /\ IdleThread /\ InitTask /\ InitManager /\ IdleDispatch
       /\ IdleFanout /\ IdleLock /\ IdleGet /\ InitSendreq /\ IdleSession
    \/ /\ part = "session"
       /\ InitServer /\ IdleFraming /\ IdleThread /\ InitTask /\ InitManager /\ IdleDispatch
       /\ IdleFanout /\ IdleLock /\ IdleGet /\ IdleSendreq /\ InitSession

Next ==
    \/ NextServer
    \/ NextFraming
    \/ NextThread
    \/ NextTask
    \/ NextManager
    \/ NextDispatch
    \/ NextFanout
    \/ NextLock
    \/ NextGet
    \/ NextSendreq
    \/ NextSession

\* client.lock alone
InitLockPart == Init /\ part = "lock"

SpecLock == InitLockPart /\ [][NextLock]_vars

\* the task client's connection manager alone
InitManagerPart == Init /\ part = "manager"

SpecManager == InitManagerPart /\ [][NextManager]_vars

\* the type queues of the task client (noobui client.py) alone
InitGetPart == Init /\ part = "get"

SpecGet == InitGetPart /\ [][NextGet]_vars

\* send_request of the threaded client against stop() (lazytea client.py) alone
InitSendreqPart == Init /\ part = "sendreq"

SpecSendreq == InitSendreqPart /\ [][NextSendreq]_vars

\* the started signal of the threaded client (lazytea client.py) alone
InitSessionPart == Init /\ part = "session"

SpecSession == InitSessionPart /\ [][NextSession]_vars

\* the server alone
InitServerPart == Init /\ part = "server"

SpecServer == InitServerPart /\ [][NextServer]_vars

\* the three receive loops alone
InitFramingPart == Init /\ part = "framing"

SpecFraming == InitFramingPart /\ [][NextFraming]_vars

\* the threaded client alone
InitThreadPart == Init /\ part = "thread"

SpecThread == InitThreadPart /\ [][NextThread]_vars

\* the two clients
InitClients == Init /\ part \in {"thread", "task"}

NextClients == NextThread \/ NextTask

SpecClients == InitClients /\ [][NextClients]_vars

\* connection management of the two clients
InitConnect == Init /\ part \in {"thread", "manager"}

NextConnect == NextThread \/ NextManager

SpecConnect == InitConnect /\ [][NextConnect]_vars

\* the server's dispatcher alone
InitDispatchPart == Init /\ part = "dispatch"

SpecDispatch == InitDispatchPart /\ [][NextDispatch]_vars

\* the threaded client's message routing alone
InitFanoutPart == Init /\ part = "fanout"

SpecFanout == InitFanoutPart /\ [][NextFanout]_vars

\* the message routing of both clients
InitRouting == Init /\ part \in {"fanout", "task"}

NextRouting == NextFanout \/ NextTask

SpecRouting == InitRouting /\ [][NextRouting]_vars

Spec == Init /\ [][Next]_vars

\* ------------------------------------------------- properties: the server
IsPrefix(s, t) == Len(s) <= Len(t) /\ SubSeq(t, 1, Len(s)) = s

\* what connection c was sent of the events that were buffered, in the order sent
BufferedSent(c) == SelectSeq(sent[c], LAMBDA e : e \in SeqRange(everBuffered))

\* C2: the events broadcast before any connection was accepted are sent to the
\* first accepted connection in the order of their broadcast, none twice, and all
\* of them once the flush has ended with that connection still attached.
C2_BufferFlushedInOrderOnce ==
    firstConn # 0 =>
        /\ IsPrefix(BufferedSent(firstConn), everBuffered)
        /\ (flushPc = "done" /\ firstConn \in active_connections)
              => BufferedSent(firstConn) = everBuffered

C2_Witness ==
    /\ flushPc = "done"
    /\ Len(everBuffered) >= 2
    /\ firstConn \in active_connections
    /\ BufferedSent(firstConn) = everBuffered

\* C3: a connection accepted after the first accepted connection is never sent
\* an event that was placed in the pre-connection buffer.
C3_LaterConnectionGetsNoBuffered ==
    \A c \in Conns : c # firstConn => BufferedSent(c) = <<>>

\* C4: a connection that is sent two events is sent them in the order of their
\* broadcast calls (events are numbered in that order).
C4_BroadcastOrderPreserved ==
    \A c \in Conns : \A i, j \in 1..Len(sent[c]) :
        i < j => sent[c][i] < sent[c][j]

\* C5 as amended: once the first connection has been accepted has_connected is
\* true; an event broadcast after that is never in message_buffer, and one whose
\* _real_broadcast finds active_connections empty is sent to no connection.
C5_BufferingNeverRearms ==
    /\ firstConn # 0 => has_connected
    /\ \A e \in issuedAfter : e \notin SeqRange(message_buffer)
    /\ \A e \in foundEmpty \cap issuedAfter :
          \A c \in Conns : e \notin SeqRange(sent[c])

C5_Witness ==
    /\ has_connected
    /\ active_connections = {}
    /\ message_buffer = <<>>
    /\ \E e \in foundEmpty \cap issuedAfter : \A c \in Conns : e \notin SeqRange(sent[c])

\* C5 as stated: ... an event whose broadcast() is called after the first
\* connection while active_connections is empty is not in message_buffer and is
\* sent to no connection.
C5_IssuedWhileEmptyReachesNobody ==
    /\ firstConn # 0 => has_connected
    /\ \A e \in issuedEmpty :
          /\ e \notin SeqRange(message_buffer)
          /\ \A c \in Conns : e \notin SeqRange(sent[c])

\* ----------------------------------------- properties: frame reassembly
\* The two receivers that keep a buffer dispatch exactly the frames wholly
\* delivered so far and keep the rest of what was read.
BufferedReassembly ==
    rcv \in {"server", "task"} =>
        /\ dispatched = SubSeq(wireFrames, 1, FramesUpTo(rpos))
        /\ rbuf = SubSeq(WireOf(wireFrames), BoundaryPos(FramesUpTo(rpos)) + 1, rpos)

\* C6: a read that delivers exactly two complete frames, each with its
\* separator, makes the receiver dispatch exactly those two, in wire order.
C6_TwoFramesInOneRead ==
    \A k \in 0..(Len(wireFrames) - 2) :
        (lastRead # <<>> /\ lastFrom = BoundaryPos(k) /\ rpos = BoundaryPos(k + 2))
           => /\ Len(dispatched) = dispatchedBefore + 2
              /\ SubSeq(dispatched, dispatchedBefore + 1, Len(dispatched))
                    = SubSeq(wireFrames, k + 1, k + 2)

\* C7: a read that delivers only a prefix of a frame dispatches nothing and the
\* prefix is kept; when later reads have delivered the rest of that frame and its
\* separator, that one frame has been dispatched, whole.
C7_PartialFrameRetained ==
    /\ (partial.frame # 0 /\ rpos < BoundaryPos(partial.frame))
          => /\ Len(dispatched) = partial.count
             /\ rbuf = SubSeq(WireOf(wireFrames), BoundaryPos(partial.frame - 1) + 1, rpos)
    /\ (partial.frame # 0 /\ rpos = BoundaryPos(partial.frame))
          => /\ Len(dispatched) = partial.count + 1
             /\ dispatched[Len(dispatched)] = wireFrames[partial.frame]

\* ------------------------------------- properties: request correlation
\* the three resolutions of a request: a response (with or without an error in
\* its payload), a timeout, the shutdown error
ResolutionKinds == {"response", "error_response", "timeout", "shutdown"}

IsResolution(k) == k \in ResolutionKinds

Resolutions(log) == SelectSeq(log, IsResolution)

C8_LostPendingNeverTimesOut ==
    \A r \in lostPending : "timeout" \notin SeqRange(outcomes[r])

C10_LossLeavesWorkerRunning ==
    (lost /\ ~stopCalled) => wsPc # "exited"

\* C11: while a client has not been stopped and has never been connected, a
\* failed connection attempt leaves it about to attempt again: the threaded
\* client's worker has not ended and its stop_event is not set, the task
\* client's manager has not ended with the exception.
C11_FailedAttemptsAreRetried ==
    /\ (~stopCalled /\ sock = "none")
          => (wsPc \in {"unstarted", "top", "connecting", "wait5"} /\ ~wStop)
    /\ (tws = "none" /\ rcvTask = "none")
          => mPc \in {"idle", "establish", "connecting"}

\* the task client has used up its retry intervals, the ConnectionError was
\* raised to the manager, and the next attempt is under way
C11_Witness ==
    /\ mPc = "connecting"
    /\ tws = "none"
    /\ slept = retry_intervals
    /\ retries = retry_intervals
    /\ tAttempts = 6

\* C12: a connection whose token differs from the configured one is rejected
\* with close code 4000, is never in active_connections, never sets
\* has_connected or schedules the flush, and is sent nothing.
C12_BadTokenRejectedWith4000 ==
    \A c \in Conns :
        connPc[c] = "rejected"
           => /\ rejectCode[c] = RejectCode
              /\ c \notin active_connections
              /\ firstConn # c
              /\ sent[c] = <<>>

\* ------------------------------------------- properties: the dispatcher
\* the response sent for frame i, if one was
ResponsesTo(i) ==
    SelectSeq(dSent, LAMBDA m : m.type = "response" /\ m.correlation_id = i)

Handled(i) == i \in 1..dNext /\ dFrames[i].type = "request" /\ ResponsesTo(i) # <<>>

\* C13 as amended: a well-formed request is answered 404 without any handler
\* running when its method has no handler, 200 with the handler's return value
\* as data.result when the handler returns, and 500 with the exception's text
\* when the call raises anything but a pydantic ValidationError, which is
\* answered 400; all of it alike for functions and coroutine functions.
C13_DispatcherCodes ==
    \A i \in 1..dNext :
        (Handled(i) /\ dFrames[i].shape = "ok")
           => /\ dFrames[i].method = "unknown"
                    => /\ ResponsesTo(i)[1].payload.code = 404
                       /\ i \notin dInvoked
              /\ (dFrames[i].method # "unknown" /\ dFrames[i].args = "match")
                    => /\ i \in dInvoked
                       /\ dFrames[i].behave = "return"
                             => /\ ResponsesTo(i)[1].payload.code = 200
                                /\ ResponsesTo(i)[1].payload.data = dFrames[i].value
                       /\ dFrames[i].behave = "raise"
                             => /\ ResponsesTo(i)[1].payload.code = 500
                                /\ ResponsesTo(i)[1].payload.error = dFrames[i].value
                       /\ dFrames[i].behave = "raise_validation"
                             => ResponsesTo(i)[1].payload.code = 400

\* a function handler raised, a coroutine handler returned, both were answered
C13_Witness ==
    /\ dNext = 2
    /\ Handled(1) /\ dFrames[1].method = "sync" /\ dFrames[1].behave = "raise"
    /\ dFrames[1].value = "boom" /\ ResponsesTo(1)[1].payload.code = 500
    /\ Handled(2) /\ dFrames[2].method = "coro" /\ dFrames[2].behave = "return"
    /\ ResponsesTo(2)[1].payload.code = 200

\* C13 as stated: ... 500 with the exception's text whenever the registered
\* handler raises.
C13_HandlerRaisesGives500 ==
    \A i \in 1..dNext :
        (Handled(i) /\ i \in dInvoked /\ dFrames[i].behave # "return")
           => ResponsesTo(i)[1].payload.code = 500

\* C14: a request whose params do not fit the registered handler's parameters is
\* answered with code 400.
C14_ParamMismatchGives400 ==
    \A i \in 1..dNext :
        (Handled(i) /\ dFrames[i].shape = "ok" /\ dFrames[i].method # "unknown"
            /\ dFrames[i].args = "mismatch")
           => ResponsesTo(i)[1].payload.code = 400

\* C15: while the connection is open, every request frame handled so far has
\* been answered by exactly one response carrying its msg_id as correlation_id,
\* and the responses that carry a correlation_id are in the order of the requests.
C15_OneResponsePerRequest ==
    dOpen =>
       /\ \A i \in 1..dNext :
             dFrames[i].type = "request" => Len(ResponsesTo(i)) = 1
       /\ \A k \in 1..Len(dSent) :
             (dSent[k].type = "response" /\ dSent[k].correlation_id # 0) =>
                /\ dSent[k].correlation_id \in 1..dNext
                /\ dFrames[dSent[k].correlation_id].type = "request"
       /\ \A j, k \in 1..Len(dSent) :
             (/\ j < k
              /\ dSent[j].type = "response" /\ dSent[j].correlation_id # 0
              /\ dSent[k].type = "response" /\ dSent[k].correlation_id # 0)
                => dSent[j].correlation_id < dSent[k].correlation_id

\* two requests, one raising and one for an unknown method, both answered
C15_Witness ==
    /\ dOpen
    /\ dNext = 2
    /\ dFrames[1].behave = "raise" /\ dFrames[1].args = "match"
    /\ dFrames[1].method = "coro"
    /\ dFrames[2].method = "unknown"
    /\ Len(dSent) = 2
    /\ dSent[1].correlation_id = 1 /\ dSent[1].payload.code = 500
    /\ dSent[2].correlation_id = 2 /\ dSent[2].payload.code = 404

\* C16: a response whose correlation_id no pending request has is discarded.
\* The step of sort_data that handles it leaves the pending table, every
\* caller's notifications and timer, the subscribed signals and what was
\* emitted to them (threaded client), the futures, what the callers observed
\* and the queues (task client) as they were.
C16_UnmatchedResponseDiscarded ==
    [][/\ (/\ part = "fanout"
           /\ fQueue # <<>>
           /\ fQueue' = Tail(fQueue)
           /\ Head(fQueue).type = "response"
           /\ Head(fQueue).cid \in Reqs \ pending)
          => UNCHANGED <<pending, timerSt, outcomes, signal_dict, delivered, fRaised>>
       /\ (/\ part = "task"
           /\ tInbox # <<>>
           /\ tInbox' = Tail(tInbox)
           /\ Head(tInbox)[1] \in Reqs \ pending_requests)
          => UNCHANGED <<pending_requests, future, observed, tPc, queues>>]_vars

\* two responses were discarded while another request was pending and a live
\* signal was subscribed to the type "response"; nobody was notified
C16_Witness ==
    /\ part = "fanout"
    /\ fDiscarded = 2
    /\ pending # {}
    /\ \E x \in Subs : /\ sigState[x] = "live"
                       /\ \E i \in 1..Len(SignalsOf(signal_dict, "response")) :
                             SignalsOf(signal_dict, "response")[i] = x
    /\ \A x \in Subs : delivered[x] = <<>>
    /\ \A r \in Reqs : outcomes[r] = <<>>

\* C17: the expiry of one request's timeout removes only that request's
\* pending entry and notifies only that request's caller; every other request
\* keeps its entry, its timer and its notifications, and the connection (socket,
\* connected flag, receiving worker, heartbeat) is as before.
C17_TimeoutTouchesOnlyItsRequest ==
    [][\A r \in Reqs :
         /\ (part = "thread" /\ timerSt[r] = "running" /\ timerSt'[r] = "expired")
            => /\ pending' = pending \ {r}
               /\ outcomes'[r] \in {outcomes[r], Append(outcomes[r], "timeout")}
               /\ \A q \in Reqs \ {r} : /\ outcomes'[q] = outcomes[q]
                                         /\ timerSt'[q] = timerSt[q]
               /\ UNCHANGED <<connVars, inbox, onWire>>
         /\ (/\ part = "task"
             /\ \/ tPc[r] = "waiting" /\ tPc'[r] = "cancelling"
                \/ tPc[r] = "cancelling" /\ tPc'[r] = "finished")
            => /\ pending_requests' \in {pending_requests, pending_requests \ {r}}
               /\ \A q \in Reqs \ {r} : /\ future'[q] = future[q]
                                         /\ observed'[q] = observed[q]
                                         /\ tPc'[q] = tPc[q]
               /\ UNCHANGED <<tws, tInbox, tOnWire, queues>>]_vars

\* one request has timed out while another one, sent on the same connection,
\* is still pending with its timer running and the client is connected
C17_Witness ==
    /\ part = "thread"
    /\ connected
    /\ sock = "open"
    /\ wsPc = "recv"
    /\ \E r, q \in Reqs : /\ outcomes[r] = <<"timeout">>
                          /\ timerSt[r] = "expired"
                          /\ q \in pending
                          /\ q \in sentOk
                          /\ timerSt[q] = "running"

\* C18: the connectivity notifications passed to the connection callback
\* strictly alternate: no two consecutive ones carry the same state.
C18_NotificationsAlternate ==
    \A i \in 1..(Len(notified) - 1) : notified[i] # notified[i + 1]

\* C19: after stop() the client sends no further frame. stop() empties the
\* pending table, and only a send_request whose frame was written to the socket
\* leaves an entry in it, so no entry may exist once stop() was called.
C19_NoFrameAfterStop ==
    stopCalled => pending = {}

\* C19, the parts about connecting and the socket: once stop() was called no
\* connection attempt starts, and a worker that has ended has released the
\* socket (ws is None)
C19_NoAttemptAfterStop ==
    [][stopCalled => attempts' = attempts]_vars

C19_SocketReleased ==
    (stopCalled /\ wsPc = "exited") => ~ws

\* C20: when the delivery of a broadcast to one consumer fails, the broadcast is
\* still delivered to every other consumer subscribed to its type, and the
\* publisher does not raise. In the threaded client: sort_data never ends with
\* an exception and never leaves out a live signal subscribed to the type.
C20_FailedDeliveryIsIsolated ==
    part = "fanout" => (fRaised = 0 /\ fMissed = {})

\* the types an unsubscribe call is about: those given, or all of them
TypesOf(call) == IF call.types = {} THEN Tags ELSE call.types

\* the occurrences of signals other than x in a list
Others(list, x) == SelectSeq(list, LAMBDA y : y # x)

\* C21: after unsubscribe(signal, T1..Tn) the signal is subscribed to none of
\* T1..Tn, however often it was, and none of these types has a key with an
\* empty list; without types this holds for every type; the subscriptions of
\* the other signals, and the lists of the other types, are as before.
C21_UnsubscribeRemovesEverywhere ==
    [][fUnsub' # NoCall =>
         /\ \A t \in TypesOf(fUnsub') :
               /\ \A i \in 1..Len(SignalsOf(signal_dict', t)) :
                     SignalsOf(signal_dict', t)[i] # fUnsub'.sig
               /\ t \in DOMAIN signal_dict' => signal_dict'[t] # <<>>
         /\ \A t \in Tags :
               Others(SignalsOf(signal_dict', t), fUnsub'.sig)
                  = Others(SignalsOf(signal_dict, t), fUnsub'.sig)
         /\ \A t \in Tags \ TypesOf(fUnsub') :
               SignalsOf(signal_dict', t) = SignalsOf(signal_dict, t)]_vars

\* signal 1 was subscribed twice to "message" and signal 2 to nothing;
\* unsubscribe(1, "message") has left no key at all
C21_Witness ==
    /\ part = "fanout"
    /\ fSubscribed = 2
    /\ fUnsub = [sig |-> 1, types |-> {"message"}]
    /\ DOMAIN signal_dict = {}
    /\ \A x \in Subs : delivered[x] = <<>> /\ sigState[x] = "live"
    /\ fQueue = <<[type |-> "message", cid |-> 0]>>

\* the step in which the threaded client's slot handles the response at the head
\* of the signal queue, an error response to a pending request
ErrorResponseHandled ==
    /\ part = "thread"
    /\ sigQueue # <<>>
    /\ sigQueue' = Tail(sigQueue)
    /\ Head(sigQueue).kind = "msg"
    /\ Head(sigQueue).err
    /\ Head(sigQueue).id \in pending

\* the step in which the task client's sort_data handles a well-formed response
\* (of any code) to a pending request whose future is not done
TaskResponseHandled ==
    /\ part = "task"
    /\ tInbox # <<>>
    /\ tInbox' = Tail(tInbox)
    /\ IsResponseFrame(Head(tInbox))
    /\ Head(tInbox)[2]
    /\ Head(tInbox)[1] \in pending_requests
    /\ future[Head(tInbox)[1]] = "pending"

C24_ResponsesCarryCorrelationId ==
    \A k \in 1..Len(dSent) :
        dSent[k].type = "response"
           => /\ dSent[k].correlation_id \in 1..dNext
              /\ dFrames[dSent[k].correlation_id].type = "request"

\* C25: a request whose frame could not be sent (the client is not connected)
\* leaves no pending entry behind, in either client.
C25_UnsentLeavesNoEntry ==
    /\ \A r \in tUnsent : r \notin pending_requests
    /\ \A r \in issued \ sentOk : r \notin pending

\* the signals in a list
SignalSet(list) == {list[i] : i \in 1..Len(list)}

\* the first signal in a list whose emit raises, if any: sort_data reaches it,
\* since every signal before it is emitted to
FirstBroken(list) ==
    {list[i] : i \in {j \in 1..Len(list) :
                        /\ sigState[list[j]] # "live"
                        /\ \A k \in 1..(j - 1) : sigState[list[k]] = "live"}}

\* C26: a consumer to which the delivery of a message failed is evicted from
\* the fan-out set of the message's type. In the threaded client: after
\* sort_data has handled a broadcast, the first subscribed signal whose emit
\* raised is no longer subscribed to the type.
C26_FailedConsumerIsEvicted ==
    [][(/\ part = "fanout"
        /\ fQueue # <<>>
        /\ fQueue' = Tail(fQueue)
        /\ ~IsCorrelated(Head(fQueue)))
         => \A x \in FirstBroken(SignalsOf(signal_dict, Head(fQueue).type)) :
               x \notin SignalSet(SignalsOf(signal_dict', Head(fQueue).type))]_vars

\* C27: with several requests pending, a response resolves exactly the pending
\* request whose id is the response's correlation_id, whatever the order in
\* which the requests were submitted and the responses arrive: that request's
\* entry goes and its caller is served, every other request keeps its entry,
\* timer, future and notifications.
C27_ResponseResolvesItsRequest ==
    [][/\ (/\ part = "thread"
           /\ sigQueue # <<>>
           /\ sigQueue' = Tail(sigQueue)
           /\ Head(sigQueue).kind = "msg"
           /\ Head(sigQueue).id \in pending)
          => /\ pending' = pending \ {Head(sigQueue).id}
             /\ timerSt'[Head(sigQueue).id] = "stopped"
             /\ (hasSucc /\ hasErr)
                   => Len(outcomes'[Head(sigQueue).id])
                         = Len(outcomes[Head(sigQueue).id]) + 1
             /\ \A q \in Reqs \ {Head(sigQueue).id} :
                   outcomes'[q] = outcomes[q] /\ timerSt'[q] = timerSt[q]
       /\ (/\ part = "task"
           /\ tInbox # <<>>
           /\ tInbox' = Tail(tInbox)
           /\ Head(tInbox)[1] \in pending_requests)
          => /\ pending_requests' = pending_requests \ {Head(tInbox)[1]}
             /\ future[Head(tInbox)[1]] = "pending"
                   => future'[Head(tInbox)[1]] \in {"result", "exception"}
             /\ \A q \in Reqs \ {Head(tInbox)[1]} :
                   future'[q] = future[q] /\ observed'[q] = observed[q]]_vars

\* requests 1 and 2 were sent in this order; the response to 2 came first and
\* was delivered to the caller of 2, while 1 is still pending
C27_Witness ==
    /\ part = "thread"
    /\ hasSucc
    /\ fakes = 0
    /\ 1 \in onWire
    /\ 1 \in pending
    /\ timerSt[1] = "running"
    /\ outcomes[1] = <<>>
    /\ 2 \in sentOk
    /\ 2 \notin pending
    /\ outcomes[2] = <<"response">>
    /\ timerSt[2] = "stopped"

\* C28: on one connection frame k+1 is not processed until the processing of
\* frame k, the sending of its response included, has finished: at most one
\* frame is being processed, it is the one after those finished, and the
\* frames were finished, and their answers sent, in the order of receipt.
C28_FramesProcessedInOrder ==
    /\ dActive \subseteq {dNext + 1}
    /\ Len(dOrder) = dNext
    /\ \A k \in 1..Len(dOrder) : dOrder[k] = k
    /\ dOpen => \A j, k \in 1..Len(dSent) :
                   (j < k /\ dSent[j].correlation_id # 0 /\ dSent[k].correlation_id # 0)
                      => dSent[j].correlation_id < dSent[k].correlation_id

\* the second frame is being processed after the first request, whose handler
\* is a coroutine function, has been answered
C28_Witness ==
    /\ dOpen
    /\ dFrames[1].type = "request"
    /\ dFrames[1].method = "coro"
    /\ dFrames[1].args = "match"
    /\ dOrder = <<1>>
    /\ dActive = {2}
    /\ Len(dSent) = 1
    /\ dSent[1].correlation_id = 1

\* C29: a send that hits a closed connection (a request frame of the threaded
\* client here) moves the client to Disconnected as a read error does: the
\* client is no longer connected, the receive worker and the heartbeat worker
\* have ended and the socket is released.
C29_SendFailureDisconnects ==
    [][(/\ issued' # issued
        /\ connected /\ ws /\ sock = "closed")
          => (/\ ~connected'
              /\ ~ws'
              /\ wsPc' # "recv"
              /\ hbPc' # "run")]_vars

\* the part of C29 the threaded client keeps: the failed send resets _connected
C29_SendFailureResetsConnected ==
    [][(/\ issued' # issued
        /\ connected /\ ws /\ sock = "closed")
          => ~connected']_vars

C31_NoLockAcrossSocketCall ==
    \A t \in LThreads : lIo[t] # "none" => lockOwner # t

\* the part of C31 the code keeps: connect and recv run without the lock
C31_ConnectAndRecvUnlocked ==
    \A t \in LThreads : lIo[t] \in {"connect", "recv"} => lockOwner # t

\* C32: once the bounded schedule 1, 2, 5, 10 is used up, a further failed
\* connection attempt is followed by the steady interval of 5 seconds and the
\* schedule is not started again.
C32_SteadyIntervalAfterSchedule ==
    [][(/\ mPc = "connecting"
        /\ retries = <<>>
        /\ mPc' # "connecting")
          => (/\ mPc' = "monitor"
              \/ /\ slept' = Append(slept, FallbackSleep)
                 /\ retries' = <<>>)]_vars

\* the part of C32 the task client keeps: while intervals are left, a refused
\* attempt is followed by the next interval of the schedule
C32_ScheduleFollowed ==
    [][(/\ mPc = "connecting"
        /\ retries # <<>>
        /\ retries' # retries)
          => slept' = Append(slept, retry_intervals[Len(retry_intervals) - Len(retries) + 1])]_vars

\* the payloads get_message calls returned
ReturnedPayloads == {gReturned[k][2] : k \in 1..Len(gReturned)}

\* C33: every message taken out of a type queue was returned by exactly one
\* get_message call.
C33_TakenMessagesAreReturned ==
    /\ gTaken = ReturnedPayloads
    /\ \A j, k \in 1..Len(gReturned) : gReturned[j][2] = gReturned[k][2] => j = k

\* C34: the type get_message returns is the type of the queue the returned
\* payload was taken from.
C34_ReturnedTypeIsPayloadsQueue ==
    \A k \in 1..Len(gReturned) : gReturned[k][1] = gReturned[k][2].type

\* send_request has returned for request r, whose send reported failure
SendFailureHandled(r) == r \in qFailed /\ ~(qCur = r /\ qPc # "idle")

\* C35: when send_raw_message reported failure for a request, the request's
\* entry is removed, its timer is not running and the caller that gave an
\* error_signal was notified of an error exactly once, also when stop() ran
\* while send_request was under way.
C35_FailedSendCleansUpOnce ==
    \A r \in Reqs :
        SendFailureHandled(r)
           => /\ r \notin qPending
              /\ qTimer[r] # "running"
              /\ qErr => Len(qNotes[r]) = 1

\* the part of C35 the code keeps: the same while stop() has not been called
C35_FailedSendWithoutStop ==
    \A r \in Reqs :
        (SendFailureHandled(r) /\ qStopPc = "idle")
           => /\ r \notin qPending
              /\ qTimer[r] # "running"
              /\ qErr => Len(qNotes[r]) = 1

\* C36: the flush of the buffer is started exactly once in the lifetime of a
\* server, however many connections are accepted before it runs, and once it
\* has taken its copy message_buffer is empty for good.
C36_FlushStartedOnce ==
    /\ flushStarts <= 1
    /\ has_connected <=> flushStarts = 1
    /\ flushStarts = 1 <=> flushPc # "none"
    /\ flushPc \notin {"none", "scheduled"} => message_buffer = <<>>

\* two connections were added before the flush task ran, with a message buffered
C36_Witness ==
    /\ \A c \in Conns : connPc[c] = "receiving"
    /\ flushPc = "scheduled"
    /\ flushStarts = 1
    /\ message_buffer # <<>>

\* C37 as stated: a broadcast is sent only to a connection that is in
\* active_connections and whose receive loop has not ended.
C37_SentOnlyWhileReceiving ==
    [][\A c \in Conns :
          sent'[c] # sent[c] => (c \in active_connections /\ connPc[c] = "receiving")]_vars

\* C37, amended: a broadcast is sent only to a connection that is in
\* active_connections at the time of sending, that is, one added after the
\* token check and not yet removed by its cleanup (its receive loop may have
\* ended while the cleanup waits for the lock); a connection enters the set only
\* from Server.start, and after its cleanup it is not in the set and is sent
\* nothing more.
C37_SentOnlyToActive ==
    /\ [](\A c \in Conns :
             c \in active_connections <=> connPc[c] \in {"receiving", "wait_cleanup"})
    /\ [][\A c \in Conns :
             /\ sent'[c] # sent[c] => c \in active_connections
             /\ (c \in active_connections' /\ c \notin active_connections)
                   => connPc[c] \in {"accepting", "wait_add"}
             /\ connPc[c] \in {"closing", "closed"}
                   => (sent'[c] = sent[c] /\ c \notin active_connections')]_vars

\* a connection was sent a broadcast and cleaned up, and a later broadcast went
\* to the other connection alone
C37_Witness ==
    \E c, e \in Conns :
        /\ connPc[c] = "closed"
        /\ connPc[e] = "receiving"
        /\ sent[c] # <<>>
        /\ Len(sent[e]) > Len(sent[c])
        /\ \A k \in 1..Len(sent[c]) : sent[c][k] # sent[e][Len(sent[e])]

\* C38: started is emitted at most once between two consecutive disconnect
\* notifications: only a connected notification emits it, a repeated connected
\* notification does not, and the first connected notification after a
\* disconnect notification does.
C38_StartedOncePerSession ==
    /\ Len(sEmitted) = Len(sNotes)
    /\ \A j \in 1..Len(sNotes) : sEmitted[j] => sNotes[j]
    /\ \A i, j \in 1..Len(sNotes) :
          (i < j /\ sEmitted[i] /\ sEmitted[j]) => \E k \in (i + 1)..(j - 1) : ~sNotes[k]
    /\ \A j \in 2..Len(sNotes) : (sNotes[j] /\ ~sNotes[j - 1]) => sEmitted[j]

\* connected twice, disconnected, connected again: started was emitted on the
\* first and on the last notification only
C38_Witness ==
    /\ sNotes = <<TRUE, TRUE, FALSE, TRUE>>
    /\ sEmitted = <<TRUE, FALSE, FALSE, TRUE>>

\* C39: in the threaded client a response without a correlation_id never
\* touches the correlation table and resolves no request: the step of sort_data
\* that handles it leaves the pending entries, the timers and the callers'
\* notifications as they were and counts no discarded response; it is emitted
\* to the signals subscribed to the type "response" and to no other signal.
C39_UncorrelatedResponseIsBroadcast ==
    [][(/\ part = "fanout"
        /\ fQueue # <<>>
        /\ fQueue' = Tail(fQueue)
        /\ Head(fQueue).type = "response"
        /\ Head(fQueue).cid = 0)
         => /\ UNCHANGED <<pending, timerSt, outcomes, fDiscarded>>
            /\ \A x \in Subs :
                  IF /\ x \in SignalSet(SignalsOf(signal_dict, "response"))
                     /\ \A y \in SignalSet(SignalsOf(signal_dict, "response")) :
                           sigState[y] = "live"
                     THEN /\ Len(delivered'[x]) > Len(delivered[x])
                          /\ delivered'[x][Len(delivered'[x])] = "response"
                     ELSE x \notin SignalSet(SignalsOf(signal_dict, "response"))
                             => delivered'[x] = delivered[x]]_vars

\* a response without a correlation_id was emitted to a subscribed signal while
\* both requests stayed pending with their timers running and nobody notified
C39_Witness ==
    /\ part = "fanout"
    /\ \E x \in Subs : \E i \in 1..Len(delivered[x]) : delivered[x][i] = "response"
    /\ pending = Reqs
    /\ \A r \in Reqs : timerSt[r] = "running" /\ outcomes[r] = <<>>
    /\ fDiscarded = 0


\* C40: a receiver or heartbeat task of the task client runs only while the
\* client is active and its manager monitors the connection: a pair is started
\* only by the step into that phase, from a phase where none is running, so
\* at most one receiver and one heartbeat exist, and none outlives the
\* connected phase.
C40_TasksOnlyWhileConnected ==
    (rcvTask = "running" \/ hbTask = "running")
        => (active /\ mPc = "monitor")

\* the connected phase was left and a second pair of tasks is running: both
\* attempts connected at once, so the second followed a cancellation
C40_Witness ==
    /\ part = "manager"
    /\ mPc = "monitor"
    /\ tAttempts = 2
    /\ slept = <<>>
    /\ rcvTask = "running"
    /\ hbTask = "running"
====
